---- MODULE Spec2Model ----
(***************************************************************************)
(* A model of the simd-csv reading core: the amortized three-byte          *)
(* Searcher, the CoreReader state machine with its three entry points,     *)
(* the owned-record builder, the scratch buffer and the streaming readers  *)
(* built on top of them.  Offsets are 0-based as in the source; a Rust     *)
(* slice s[a..b] is Slice(s, a, b).                                        *)
(***************************************************************************)
EXTENDS Integers, Sequences, FiniteSets, TLC

\* ------------------------------------------------------------------------
\* Bytes
\* ------------------------------------------------------------------------
LF == 10
CR == 13
Quote == 34
Delim == 44
Letter == 97

Alphabet == {Letter, Delim, Quote, LF, CR}

\* Option::None for an offset
None == -1

\* ------------------------------------------------------------------------
\* Bounds of the model
\* ------------------------------------------------------------------------
\* longest input stream given to a streaming reader
MaxLen == 5
\* longest stream given to a Splitter or a ZeroCopyReader
MaxRecLen == 4
\* longest chunk handed to a bare CoreReader call
MaxChunk == 2
\* most bytes fed to a bare CoreReader between two Record results
MaxFed == 4
\* longest haystack given to the Searcher
MaxHay == 18
\* most positions of a haystack that differ from its background byte
MaxHot == 3

\* buffer capacities of the streaming readers (tests use 32, 4, 3, 2, 1)
Capacities == {1, 2, 3, 4, 32}

\* ------------------------------------------------------------------------
\* Sequence helpers
\* ------------------------------------------------------------------------
Slice(s, a, b) == SubSeq(s, a + 1, b)

Min(a, b) == IF a < b THEN a ELSE b

SeqsUpTo(S, n) == UNION {[1..k -> S] : k \in 0..n}

\* memchr crate: offset of the first occurrence of b in s, or None
memchr(b, s) ==
    IF \E i \in 1..Len(s) : s[i] = b
    THEN (CHOOSE i \in 1..Len(s) : s[i] = b /\ \A j \in 1..(i - 1) : s[j] # b) - 1
    ELSE None

\* memchr crate: offset of the first occurrence of b1 or b2 in s, or None
memchr2(b1, b2, s) ==
    IF \E i \in 1..Len(s) : s[i] \in {b1, b2}
    THEN (CHOOSE i \in 1..Len(s) :
              s[i] \in {b1, b2} /\ \A j \in 1..(i - 1) : s[j] \notin {b1, b2}) - 1
    ELSE None

\* utils: drop one trailing CR
trim_trailing_cr(s) ==
    IF Len(s) >= 1 /\ s[Len(s)] = CR THEN SubSeq(s, 1, Len(s) - 1) ELSE s

\* utils::trim_trailing_crlf
trim_trailing_crlf(s) ==
    LET len == Len(s)
        has_lf == len >= 1 /\ s[len] = LF
        has_crlf == has_lf /\ len >= 2 /\ s[len - 1] = CR
    IN  SubSeq(s, 1, len - (IF has_lf THEN 1 ELSE 0) - (IF has_crlf THEN 1 ELSE 0))

\* ------------------------------------------------------------------------
\* Searcher (x86_64 SSE2 path)
\* ------------------------------------------------------------------------
SSE2_STEP == 16

SSE2Searcher(n1, n2, n3) == [n1 |-> n1, n2 |-> n2, n3 |-> n3]

\* SSE2Indices::new: start = 0, end = Len(haystack)
SSE2IndicesNew == [current |-> 0, mask |-> 0]

RECURSIVE Pow2(_)
Pow2(n) == IF n = 0 THEN 1 ELSE 2 * Pow2(n - 1)

\* trailing_zeros of a non-zero mask
RECURSIVE first_offset(_)
first_offset(mask) == IF mask % 2 = 1 THEN 0 ELSE 1 + first_offset(mask \div 2)

\* mask & (mask - 1)
clear_least_significant_bit(mask) == mask - Pow2(first_offset(mask))

IsNeedle(s, b) == b = s.n1 \/ b = s.n2 \/ b = s.n3

\* _mm_movemask_epi8 of the three compares of the chunk at current, lanes lane..15
RECURSIVE MoveMask(_, _, _, _)
MoveMask(s, h, current, lane) ==
    IF lane = SSE2_STEP THEN 0
    ELSE (IF IsNeedle(s, h[current + lane + 1]) THEN Pow2(lane) ELSE 0)
         + MoveMask(s, h, current, lane + 1)

\* "Processing remaining bytes linearly"
RECURSIVE ScalarTail(_, _, _, _)
ScalarTail(s, h, current, it) ==
    IF current < Len(h)
    THEN IF IsNeedle(s, h[current + 1])
         THEN [item |-> current, it |-> [it EXCEPT !.current = current + 1]]
         ELSE ScalarTail(s, h, current + 1, it)
    ELSE [item |-> None, it |-> it]

\* the 'main loop of next(): cached mask first, then unaligned loads, then the tail
RECURSIVE MainLoop(_, _, _, _, _)
MainLoop(s, h, mask, current, it) ==
    IF mask # 0
    THEN [item |-> current - SSE2_STEP + first_offset(mask),
          it |-> [current |-> current, mask |-> clear_least_significant_bit(mask)]]
    ELSE IF current <= Len(h) - SSE2_STEP
         THEN MainLoop(s, h, MoveMask(s, h, current, 0), current + SSE2_STEP, it)
         ELSE ScalarTail(s, h, current, it)

\* next() that forgets the move-mask cached by the previous call
SSE2IndicesNextWithoutCachedMask(s, h, it) ==
    IF 0 >= Len(h) THEN [item |-> None, it |-> it]
    ELSE MainLoop(s, h, 0, it.current, it)

\* SSE2Indices::next
SSE2IndicesNext(s, h, it) ==
    IF 0 >= Len(h) THEN [item |-> None, it |-> it]
    ELSE MainLoop(s, h, it.mask, it.current, it)

\* ------------------------------------------------------------------------
\* Owned record and its builder
\* ------------------------------------------------------------------------
\* ByteRecord::new / clear
EmptyRecord == [data |-> <<>>, bounds |-> <<>>]

\* ByteRecordBuilder::wrap
wrap(record) == [record |-> record, start |-> 0]

extend_from_slice(rb, slice) == [rb EXCEPT !.record.data = @ \o slice]

push_byte(rb, byte) == [rb EXCEPT !.record.data = Append(@, byte)]

\* a finalize_field that leaves the start of the next field where it was
finalize_field_without_advancing(rb) ==
    [rb EXCEPT !.record.bounds = Append(@, <<rb.start, Len(rb.record.data)>>)]

\* ByteRecordBuilder::finalize_field
finalize_field(rb) ==
    [rb EXCEPT !.start = Len(rb.record.data),
               !.record.bounds = Append(@, <<rb.start, Len(rb.record.data)>>)]

\* finalize_field_preemptively that starts the next field on the delimiter
finalize_field_preemptively_on_delimiter(rb, offset) ==
    [rb EXCEPT !.start = Len(rb.record.data) + offset,
               !.record.bounds = Append(@, <<rb.start, Len(rb.record.data) + offset>>)]

finalize_field_preemptively(rb, offset) ==
    [rb EXCEPT !.start = Len(rb.record.data) + offset + 1,
               !.record.bounds = Append(@, <<rb.start, Len(rb.record.data) + offset>>)]

bump(rb) ==
    LET n == Len(rb.record.bounds)
        last == IF n = 0 THEN 0 ELSE rb.record.bounds[n][1]
    IN  [rb EXCEPT !.start = @ + (IF last # rb.start THEN 1 ELSE 0)]

\* a slice whose range is not inside the data: the index panics
Panic == <<-1>>

\* ByteRecord::get for an index in range
Field(record, i) ==
    LET s == record.bounds[i][1]
        e == record.bounds[i][2]
    IN  IF s <= e /\ e <= Len(record.data) THEN Slice(record.data, s, e) ELSE Panic

\* ByteRecord::iter collected
Fields(record) == [i \in 1..Len(record.bounds) |-> Field(record, i)]

\* ------------------------------------------------------------------------
\* CoreReader
\* ------------------------------------------------------------------------
\* CoreReader::new
CoreReaderNew(delimiter, quote) ==
    [delimiter |-> delimiter,
     quote |-> quote,
     state |-> "Unquoted",
     record_was_read |-> TRUE,
     searcher |-> SSE2Searcher(delimiter, LF, quote)]

\* the prologue with a flush that leaves record_was_read false
PrologueFlushingTwice(self, input) ==
    IF Len(input) = 0
    THEN IF ~self.record_was_read
         THEN [result |-> "Record", pos |-> 0, self |-> self]
         ELSE [result |-> "End", pos |-> 0, self |-> self]
    ELSE IF self.record_was_read /\ input[1] = LF
         THEN [result |-> "Lf", pos |-> 1, self |-> self]
         ELSE IF self.record_was_read /\ input[1] = CR
              THEN [result |-> "Cr", pos |-> 1, self |-> self]
              ELSE [result |-> "go", pos |-> 0,
                    self |-> [self EXCEPT !.record_was_read = FALSE]]

\* the prologue shared by the three entry points: empty input, then the
\* blank-line skip; "go" means the scan loop runs
Prologue(self, input) ==
    IF Len(input) = 0
    THEN IF ~self.record_was_read
         THEN [result |-> "Record", pos |-> 0,
               self |-> [self EXCEPT !.record_was_read = TRUE]]
         ELSE [result |-> "End", pos |-> 0, self |-> self]
    ELSE IF self.record_was_read /\ input[1] = LF
         THEN [result |-> "Lf", pos |-> 1, self |-> self]
         ELSE IF self.record_was_read /\ input[1] = CR
              THEN [result |-> "Cr", pos |-> 1, self |-> self]
              ELSE [result |-> "go", pos |-> 0,
                    self |-> [self EXCEPT !.record_was_read = FALSE]]

\* the while loop of split_record
RECURSIVE SplitLoop(_, _, _)
SplitLoop(self, input, pos) ==
    LET InputEmpty == [result |-> "InputEmpty", pos |-> Len(input), self |-> self]
    IN
    IF pos >= Len(input) THEN InputEmpty
    ELSE CASE self.state = "Unquoted" ->
                IF input[pos + 1] = self.quote
                THEN SplitLoop([self EXCEPT !.state = "Quoted"], input, pos + 1)
                ELSE LET offset == memchr2(LF, self.quote, Slice(input, pos, Len(input)))
                     IN  IF offset # None
                         THEN IF input[pos + offset + 1] = LF
                              THEN [result |-> "Record", pos |-> pos + offset + 1,
                                    self |-> [self EXCEPT !.record_was_read = TRUE]]
                              ELSE SplitLoop([self EXCEPT !.state = "Quoted"],
                                             input, pos + offset + 1)
                         ELSE InputEmpty
           [] self.state = "Quoted" ->
                LET offset == memchr(self.quote, Slice(input, pos, Len(input)))
                IN  IF offset # None
                    THEN SplitLoop([self EXCEPT !.state = "Quote"], input, pos + offset + 1)
                    ELSE InputEmpty
           [] self.state = "Quote" ->
                LET byte == input[pos + 1]
                IN  IF byte = self.quote
                    THEN SplitLoop([self EXCEPT !.state = "Quoted"], input, pos + 1)
                    ELSE IF byte = LF
                         THEN [result |-> "Record", pos |-> pos + 1,
                               self |-> [self EXCEPT !.record_was_read = TRUE,
                                                     !.state = "Unquoted"]]
                         ELSE SplitLoop([self EXCEPT !.state = "Unquoted"], input, pos + 1)

\* split_record that absorbs a leading LF only: a leading CR starts a record
split_record_scanning_cr(self, input) ==
    LET p == Prologue(self, input)
    IN  IF p.result \in {"go", "Cr"}
        THEN SplitLoop([self EXCEPT !.record_was_read = FALSE], input, 0)
        ELSE p

\* CoreReader::split_record
split_record(self, input) ==
    LET p == Prologue(self, input)
    IN  IF p.result = "go" THEN SplitLoop(p.self, input, 0) ELSE p

\* the `for offset in self.searcher.search(&input[pos..])` loop of
\* split_record_and_find_separators; ret tells whether the routine returned
RECURSIVE SepsSearchLoop(_, _, _, _, _, _, _)
SepsSearchLoop(self, input, pos, it, last_offset, seps_offset, seps) ==
    LET nx == SSE2IndicesNext(self.searcher, Slice(input, pos, Len(input)), it)
        offset == nx.item
        byte == input[pos + offset + 1]
    IN  IF offset = None
        THEN [ret |-> FALSE, last_offset |-> last_offset, self |-> self, seps |-> seps]
        ELSE IF byte = self.delimiter
             THEN SepsSearchLoop(self, input, pos, nx.it, offset + 1, seps_offset,
                                 Append(seps, seps_offset + pos + offset))
             ELSE IF byte = LF
                  THEN [ret |-> TRUE, last_offset |-> offset + 1,
                        self |-> [self EXCEPT !.record_was_read = TRUE], seps |-> seps]
                  ELSE [ret |-> FALSE, last_offset |-> offset + 1,
                        self |-> [self EXCEPT !.state = "Quoted"], seps |-> seps]

\* the while loop of split_record_and_find_separators
RECURSIVE SepsLoop(_, _, _, _, _)
SepsLoop(self, input, pos, seps_offset, seps) ==
    LET InputEmpty == [result |-> "InputEmpty", pos |-> Len(input), self |-> self,
                       seps |-> seps]
    IN
    IF pos >= Len(input) THEN InputEmpty
    ELSE CASE self.state = "Unquoted" ->
                IF input[pos + 1] = self.quote
                THEN SepsLoop([self EXCEPT !.state = "Quoted"], input, pos + 1,
                              seps_offset, seps)
                ELSE LET r == SepsSearchLoop(self, input, pos, SSE2IndicesNew, 0,
                                             seps_offset, seps)
                     IN  IF r.ret
                         THEN [result |-> "Record", pos |-> pos + r.last_offset,
                               self |-> r.self, seps |-> r.seps]
                         ELSE IF r.last_offset > 0
                              THEN SepsLoop(r.self, input, pos + r.last_offset,
                                            seps_offset, r.seps)
                              ELSE [result |-> "InputEmpty", pos |-> Len(input),
                                    self |-> r.self, seps |-> r.seps]
           [] self.state = "Quoted" ->
                LET offset == memchr(self.quote, Slice(input, pos, Len(input)))
                IN  IF offset # None
                    THEN SepsLoop([self EXCEPT !.state = "Quote"], input,
                                  pos + offset + 1, seps_offset, seps)
                    ELSE InputEmpty
           [] self.state = "Quote" ->
                LET byte == input[pos + 1]
                IN  IF byte = self.quote
                    THEN SepsLoop([self EXCEPT !.state = "Quoted"], input, pos + 1,
                                  seps_offset, seps)
                    ELSE IF byte = self.delimiter
                         THEN SepsLoop([self EXCEPT !.state = "Unquoted"], input, pos + 1,
                                       seps_offset, Append(seps, seps_offset + pos + 1 - 1))
                         ELSE IF byte = LF
                              THEN [result |-> "Record", pos |-> pos + 1,
                                    self |-> [self EXCEPT !.record_was_read = TRUE,
                                                          !.state = "Unquoted"],
                                    seps |-> seps]
                              ELSE SepsLoop([self EXCEPT !.state = "Unquoted"], input,
                                            pos + 1, seps_offset, seps)

\* CoreReader::split_record_and_find_separators
split_record_and_find_separators(self, input, seps_offset, seps) ==
    LET p == Prologue(self, input)
    IN  IF p.result = "go"
        THEN SepsLoop(p.self, input, 0, seps_offset, seps)
        ELSE [result |-> p.result, pos |-> p.pos, self |-> p.self, seps |-> seps]

\* the `for offset in self.searcher.search(&input[pos..])` loop of read_record
RECURSIVE ReadSearchLoop(_, _, _, _, _, _)
ReadSearchLoop(self, input, pos, it, last_offset, rb) ==
    LET nx == SSE2IndicesNext(self.searcher, Slice(input, pos, Len(input)), it)
        offset == nx.item
        byte == input[pos + offset + 1]
    IN  IF offset = None
        THEN [ret |-> FALSE, last_offset |-> last_offset, self |-> self, rb |-> rb]
        ELSE IF byte = self.delimiter
             THEN ReadSearchLoop(self, input, pos, nx.it, offset + 1,
                                 finalize_field_preemptively(rb, offset))
             ELSE IF byte = LF
                  THEN [ret |-> TRUE, last_offset |-> offset + 1,
                        self |-> [self EXCEPT !.record_was_read = TRUE],
                        rb |-> finalize_field(
                                 extend_from_slice(rb,
                                    trim_trailing_cr(Slice(input, pos, pos + offset))))]
                  ELSE [ret |-> FALSE, last_offset |-> offset + 1,
                        self |-> [self EXCEPT !.state = "Quoted"], rb |-> bump(rb)]

\* the while loop of read_record, with the copy of the rest of the input after it
RECURSIVE ReadLoop(_, _, _, _)
ReadLoop(self, input, pos, rb) ==
    LET InputEmpty == [result |-> "InputEmpty", pos |-> Len(input), self |-> self,
                       rb |-> extend_from_slice(rb, Slice(input, pos, Len(input)))]
    IN
    IF pos >= Len(input) THEN InputEmpty
    ELSE CASE self.state = "Unquoted" ->
                IF input[pos + 1] = self.quote
                THEN ReadLoop([self EXCEPT !.state = "Quoted"], input, pos + 1, rb)
                ELSE LET r == ReadSearchLoop(self, input, pos, SSE2IndicesNew, 0, rb)
                     IN  IF r.ret
                         THEN [result |-> "Record", pos |-> pos + r.last_offset,
                               self |-> r.self, rb |-> r.rb]
                         ELSE IF r.last_offset > 0
                              THEN ReadLoop(r.self, input, pos + r.last_offset,
                                            extend_from_slice(r.rb,
                                               Slice(input, pos, pos + r.last_offset)))
                              ELSE [result |-> "InputEmpty", pos |-> Len(input),
                                    self |-> r.self,
                                    rb |-> extend_from_slice(r.rb,
                                              Slice(input, pos, Len(input)))]
           [] self.state = "Quoted" ->
                LET offset == memchr(self.quote, Slice(input, pos, Len(input)))
                IN  IF offset # None
                    THEN ReadLoop([self EXCEPT !.state = "Quote"], input, pos + offset + 1,
                                  extend_from_slice(rb, Slice(input, pos, pos + offset)))
                    ELSE InputEmpty
           [] self.state = "Quote" ->
                LET byte == input[pos + 1]
                IN  IF byte = self.quote
                    THEN ReadLoop([self EXCEPT !.state = "Quoted"], input, pos + 1,
                                  push_byte(rb, byte))
                    ELSE IF byte = self.delimiter
                         THEN ReadLoop([self EXCEPT !.state = "Unquoted"], input, pos + 1,
                                       finalize_field(rb))
                         ELSE IF byte = LF
                              THEN [result |-> "Record", pos |-> pos + 1,
                                    self |-> [self EXCEPT !.record_was_read = TRUE,
                                                          !.state = "Unquoted"],
                                    rb |-> finalize_field(rb)]
                              ELSE ReadLoop([self EXCEPT !.state = "Unquoted"], input,
                                            pos + 1, rb)

\* read_record that does not clear record_was_read before it scans
read_record_keeping_record_was_read(self, input, rb) ==
    LET p == Prologue(self, input)
    IN  IF p.result = "go"
        THEN ReadLoop(self, input, 0, rb)
        ELSE [result |-> p.result, pos |-> p.pos, self |-> p.self,
              rb |-> IF p.result = "Record" THEN finalize_field(rb) ELSE rb]

\* CoreReader::read_record
read_record(self, input, rb) ==
    LET p == Prologue(self, input)
    IN  IF p.result = "go"
        THEN ReadLoop(p.self, input, 0, rb)
        ELSE [result |-> p.result, pos |-> p.pos, self |-> p.self,
              rb |-> IF p.result = "Record" THEN finalize_field(rb) ELSE rb]

\* ------------------------------------------------------------------------
\* State
\* ------------------------------------------------------------------------
VARIABLES
    \* a bare CoreReader driven chunk by chunk through one of its entry points
    routine,        \* the entry point the driver calls
    core,           \* the CoreReader
    core_seps,      \* the separators vector handed to the calls
    core_rb,        \* the record builder handed to the calls
    core_last,      \* input and (result, pos) of the last call
    fed,            \* bytes consumed for the record in progress
    \* a streaming reader over a byte stream
    input,          \* the bytes of the stream
    cap,            \* the buffer capacity of the reader
    reader,         \* the reader object
    out,            \* what the calls made so far returned, in order
    done,           \* the last call reported the end of the stream
    writer,         \* the Writer the records are written with
    \* an iteration of Searcher::search over a haystack
    haystack,       \* the bytes searched
    indices,        \* the iterator: its searcher, current and mask
    found,          \* the offsets next() returned so far, in order
    exhausted       \* next() has returned None

core_vars == <<routine, core, core_seps, core_rb, core_last, fed>>

stream_vars == <<input, cap, reader, out, done, writer>>

search_vars == <<haystack, indices, found, exhausted>>

vars == <<routine, core, core_seps, core_rb, core_last, fed,
          input, cap, reader, out, done, writer,
          haystack, indices, found, exhausted>>

\* ------------------------------------------------------------------------
\* Buffered source
\* ------------------------------------------------------------------------
\* std::io::BufReader over a Cursor: the buffer holds bytes[consumed..filled];
\* the first chained bytes of the source come from a reader of their own
BufReaderWithCapacity(capacity, bytes) ==
    [bytes |-> bytes, capacity |-> capacity, consumed |-> 0, filled |-> 0,
     chained |-> 0]

\* one read of the source into an empty buffer: a std::io::Chain never crosses
\* from its first reader to its second in one read
SourceRead(b) ==
    IF b.consumed < b.chained
    THEN Min(b.capacity, b.chained - b.consumed)
    ELSE b.capacity

\* BufReader::fill_buf: refills only when the buffer is exhausted
BufReaderFill(b) ==
    IF b.consumed >= b.filled
    THEN [b EXCEPT !.filled = Min(b.consumed + SourceRead(b), Len(b.bytes))]
    ELSE b

\* BufReader::buffer
BufReaderBuffer(b) == Slice(b.bytes, b.consumed, b.filled)

\* BufReader::consume
BufReaderConsume(b, amt) == [b EXCEPT !.consumed = Min(b.consumed + amt, b.filled)]

\* the variables of the streaming readers while a bare CoreReader is driven
StreamIdle ==
    /\ input = <<>>
    /\ cap = 0
    /\ reader = [kind |-> "none"]
    /\ out = <<>>
    /\ done = FALSE
    /\ writer = [kind |-> "none"]

\* the variables of the bare CoreReader while a streaming reader is driven
CoreIdle ==
    /\ routine = "none"
    /\ core = CoreReaderNew(Delim, Quote)
    /\ core_seps = <<>>
    /\ core_rb = wrap(EmptyRecord)
    /\ core_last = [input |-> <<>>, result |-> "none", pos |-> 0]
    /\ fed = 0

\* no Writer while a reader alone is driven
WriterIdle == writer = [kind |-> "none"]

\* the variables of the search while something else is driven
SearchIdle ==
    /\ haystack = <<>>
    /\ indices = [searcher |-> SSE2Searcher(Delim, LF, Quote), it |-> SSE2IndicesNew]
    /\ found = <<>>
    /\ exhausted = FALSE

Inputs == SeqsUpTo(Alphabet, MaxLen)

\* ------------------------------------------------------------------------
\* The copying reader
\* ------------------------------------------------------------------------
BufferedReaderWithCapacity(bytes, capacity, delimiter, quote) ==
    [kind |-> "Reader",
     buffer |-> BufReaderWithCapacity(capacity, bytes),
     inner |-> CoreReaderNew(delimiter, quote)]

\* the loop of read_byte_record: fill_buf, read_record, consume
RECURSIVE ReadByteRecordLoop(_, _)
ReadByteRecordLoop(self, rb) ==
    LET buffer == BufReaderFill(self.buffer)
        r == read_record(self.inner, BufReaderBuffer(buffer), rb)
        next == [self EXCEPT !.buffer = BufReaderConsume(buffer, r.pos),
                             !.inner = r.self]
    IN  IF r.result = "End" THEN [ret |-> FALSE, self |-> next, record |-> r.rb.record]
        ELSE IF r.result = "Record"
             THEN [ret |-> TRUE, self |-> next, record |-> r.rb.record]
             ELSE ReadByteRecordLoop(next, r.rb)

\* read_byte_record: the record is cleared and wrapped in a builder first
read_byte_record(self) == ReadByteRecordLoop(self, wrap(EmptyRecord))

\* byte_records().collect(): the fields of every record read until the end
RECURSIVE byte_records(_)
byte_records(self) ==
    LET r == read_byte_record(self)
    IN  IF r.ret THEN <<Fields(r.record)>> \o byte_records(r.self) ELSE <<>>

InitReader ==
    /\ input \in Inputs
    /\ cap \in Capacities
    /\ reader = BufferedReaderWithCapacity(input, cap, Delim, Quote)
    /\ out = <<>>
    /\ done = FALSE
    /\ WriterIdle
    /\ CoreIdle
    /\ SearchIdle

\* the effect of a read_byte_record call that returned r
ReaderReturns(r) ==
    /\ reader' = r.self
    /\ out' = IF r.ret THEN Append(out, Fields(r.record)) ELSE out
    /\ done' = ~r.ret

ReaderReadByteRecord ==
    /\ reader.kind = "Reader"
    /\ ReaderReturns(read_byte_record(reader))
    /\ UNCHANGED <<input, cap, writer>>
    /\ UNCHANGED core_vars
    /\ UNCHANGED search_vars

NextReader == ReaderReadByteRecord

SpecReader == InitReader /\ [][NextReader]_vars

\* ------------------------------------------------------------------------
\* A search driven to exhaustion and beyond
\* ------------------------------------------------------------------------
\* the sets of at most k elements of S
RECURSIVE SubsetsUpTo(_, _)
SubsetsUpTo(S, k) ==
    IF k = 0 THEN {{}}
    ELSE LET smaller == SubsetsUpTo(S, k - 1)
         IN  smaller \cup {p \cup {x} : p \in smaller, x \in S}

\* a haystack of len bytes that holds byte at the hot positions and a byte
\* no searcher looks for everywhere else
Haystack(len, hot, byte) == [i \in 1..len |-> IF i \in hot THEN byte ELSE Letter]

\* the needles of the searchers: all distinct, two equal, all equal
Needles == {<<Delim, LF, Quote>>, <<Delim, Delim, LF>>, <<Quote, Quote, Quote>>}

InitSearch ==
    /\ \E len \in 0..MaxHay :
         \E hot \in SubsetsUpTo(1..len, MaxHot), byte \in {Delim, LF, Quote} :
            haystack = Haystack(len, hot, byte)
    /\ \E n \in Needles :
            indices = [searcher |-> SSE2Searcher(n[1], n[2], n[3]), it |-> SSE2IndicesNew]
    /\ found = <<>>
    /\ exhausted = FALSE
    /\ CoreIdle
    /\ StreamIdle

\* one call of next(); a caller stops once it was given more offsets than the
\* haystack has bytes
SearchNext ==
    /\ Len(found) <= Len(haystack)
    /\ LET r == SSE2IndicesNext(indices.searcher, haystack, indices.it)
       IN  /\ indices' = [indices EXCEPT !.it = r.it]
           /\ found' = IF r.item # None THEN Append(found, r.item) ELSE found
           /\ exhausted' = (exhausted \/ r.item = None)
    /\ UNCHANGED haystack
    /\ UNCHANGED core_vars
    /\ UNCHANGED stream_vars

NextSearch == SearchNext

SpecSearch == InitSearch /\ [][NextSearch]_vars

\* ------------------------------------------------------------------------
\* ScratchBuffer
\* ------------------------------------------------------------------------
\* ScratchBuffer::with_capacity over BufReaderWithPosition::with_capacity
ScratchBufferWithCapacity(capacity, bytes) ==
    [inner |-> [inner |-> BufReaderWithCapacity(capacity, bytes), pos |-> 0],
     scratch |-> <<>>,
     next_consume |-> None]

\* BufReaderWithPosition::consume
PositionedConsume(b, amt) ==
    [b EXCEPT !.pos = @ + amt, !.inner = BufReaderConsume(@, amt)]

\* ScratchBuffer::consume
Consume(sb, amt) == [sb EXCEPT !.inner = PositionedConsume(@, amt)]

\* ScratchBuffer::fill_buf: the buffer after the call; FillBuf(sb).window is
\* the slice it returns
FillBuf(sb) ==
    LET b == BufReaderFill(sb.inner.inner)
    IN  [sb |-> [sb EXCEPT !.inner.inner = b], window |-> BufReaderBuffer(b)]

\* ScratchBuffer::save
Save(sb) ==
    LET bytes == BufReaderBuffer(sb.inner.inner)
    IN  [sb EXCEPT !.scratch = @ \o bytes,
                   !.inner = PositionedConsume(@, Len(bytes))]

\* ScratchBuffer::saved
Saved(sb) == sb.scratch

\* ScratchBuffer::reset
Reset(sb) ==
    IF sb.next_consume # None
    THEN [sb EXCEPT !.scratch = <<>>,
                    !.next_consume = None,
                    !.inner = PositionedConsume(@, sb.next_consume)]
    ELSE [sb EXCEPT !.scratch = <<>>]

\* flush that returns the bytes of the window alone, whatever was saved
FlushWindowOnly(sb, amt) ==
    LET bytes == BufReaderBuffer(sb.inner.inner)
    IN  IF Len(sb.scratch) = 0
        THEN [sb |-> [sb EXCEPT !.next_consume = amt], slice |-> Slice(bytes, 0, amt)]
        ELSE [sb |-> [sb EXCEPT !.scratch = @ \o Slice(bytes, 0, amt),
                                !.inner = PositionedConsume(@, amt)],
              slice |-> Slice(bytes, 0, amt)]

\* ScratchBuffer::flush: the buffer after the call and the slice returned
Flush(sb, amt) ==
    LET bytes == BufReaderBuffer(sb.inner.inner)
    IN  IF Len(sb.scratch) = 0
        THEN [sb |-> [sb EXCEPT !.next_consume = amt], slice |-> Slice(bytes, 0, amt)]
        ELSE [sb |-> [sb EXCEPT !.scratch = @ \o Slice(bytes, 0, amt),
                                !.inner = PositionedConsume(@, amt)],
              slice |-> sb.scratch \o Slice(bytes, 0, amt)]

\* a position that leaves the deferred consume out
PositionWithoutDeferred(sb) == sb.inner.pos

\* ScratchBuffer::position
Position(sb) == sb.inner.pos + (IF sb.next_consume = None THEN 0 ELSE sb.next_consume)

BOM == <<239, 187, 191>>

\* utils::trim_bom
trim_bom(slice) == IF Len(slice) >= 3 /\ Slice(slice, 0, 3) = BOM THEN 3 ELSE 0

\* ------------------------------------------------------------------------
\* Splitter
\* ------------------------------------------------------------------------
\* SplitterBuilder::from_reader
SplitterFromReader(bytes, capacity, delimiter, quote, has_headers) ==
    [kind |-> "Splitter",
     buffer |-> ScratchBufferWithCapacity(capacity, bytes),
     inner |-> CoreReaderNew(delimiter, quote),
     headers |-> <<>>,
     has_read |-> FALSE,
     has_headers |-> has_headers,
     must_reemit_headers |-> ~has_headers]

\* the match on the result of split_record in Splitter::split_record_impl;
\* filled is the Splitter once fill_buf has run, r what split_record returned
RECURSIVE SplitRecordImplLoop(_)
SplitRecordImplMatch(filled, r) ==
    LET scanned == [filled EXCEPT !.inner = r.self]
        fl == Flush(scanned.buffer, r.pos)
    IN  CASE r.result = "End" ->
                [some |-> FALSE, slice |-> <<>>,
                 self |-> [scanned EXCEPT !.buffer = Consume(@, r.pos)]]
          [] r.result \in {"Cr", "Lf"} ->
                SplitRecordImplLoop([scanned EXCEPT !.buffer = Consume(@, r.pos)])
          [] r.result = "InputEmpty" ->
                SplitRecordImplLoop([scanned EXCEPT !.buffer = Save(@)])
          [] r.result = "Record" ->
                [some |-> TRUE, slice |-> trim_trailing_crlf(fl.slice),
                 self |-> [scanned EXCEPT !.buffer = fl.sb]]

\* the loop of Splitter::split_record_impl: fill_buf, then split_record
SplitRecordImplLoop(self) ==
    SplitRecordImplMatch([self EXCEPT !.buffer = FillBuf(self.buffer).sb],
                         split_record(self.inner, FillBuf(self.buffer).window))

\* Splitter::split_record_impl
split_record_impl(self) == SplitRecordImplLoop([self EXCEPT !.buffer = Reset(@)])

\* Splitter::on_first_read once the first record was read: r is what
\* split_record_impl returned
SplitterHeadersRead(r) ==
    IF r.some
    THEN [r.self EXCEPT !.headers = r.slice, !.has_read = TRUE]
    ELSE [r.self EXCEPT !.must_reemit_headers = FALSE, !.has_read = TRUE]

\* Splitter::on_first_read
SplitterOnFirstRead(self) ==
    IF self.has_read THEN self
    ELSE SplitterHeadersRead(split_record_impl(
            [self EXCEPT !.buffer = Consume(FillBuf(self.buffer).sb,
                                            trim_bom(FillBuf(self.buffer).window))]))

\* Splitter::split_record after on_first_read
SplitterSplitAfterFirstRead(first) ==
    IF first.must_reemit_headers
    THEN [some |-> TRUE, slice |-> first.headers,
          self |-> [first EXCEPT !.must_reemit_headers = FALSE]]
    ELSE split_record_impl(first)

\* Splitter::split_record
SplitterSplit(self) == SplitterSplitAfterFirstRead(SplitterOnFirstRead(self))

\* Splitter::position
SplitterPosition(self) ==
    IF self.must_reemit_headers THEN 0 ELSE Position(self.buffer)

\* Splitter::split_record_with_position after on_first_read: the position is
\* read before the record is looked for
SplitWithPositionPaired(pos, r) ==
    [some |-> r.some, pos |-> pos, slice |-> r.slice, self |-> r.self]

SplitWithPositionAfterFirstRead(first) ==
    SplitWithPositionPaired(SplitterPosition(first), SplitterSplitAfterFirstRead(first))

\* Splitter::split_record_with_position
split_record_with_position(self) ==
    SplitWithPositionAfterFirstRead(SplitterOnFirstRead(self))

\* the match on the result of split_record in Splitter::count_records
RECURSIVE CountRecordsLoop(_, _)
CountRecordsMatch(filled, r, count) ==
    LET next == [filled EXCEPT !.buffer = Consume(@, r.pos), !.inner = r.self]
    IN  IF r.result = "End" THEN [count |-> count, self |-> next]
        ELSE IF r.result = "Record" THEN CountRecordsLoop(next, count + 1)
             ELSE CountRecordsLoop(next, count)

\* the loop of Splitter::count_records
CountRecordsLoop(self, count) ==
    CountRecordsMatch([self EXCEPT !.buffer = FillBuf(self.buffer).sb],
                      split_record(self.inner, FillBuf(self.buffer).window), count)

\* Splitter::count_records after on_first_read
CountRecordsAfterFirstRead(first) ==
    CountRecordsLoop([first EXCEPT !.buffer = Reset(@), !.must_reemit_headers = FALSE],
                     IF first.must_reemit_headers THEN 1 ELSE 0)

\* count_records that does not count the first record it has buffered
count_records_without_first(self) ==
    CountRecordsLoop([SplitterOnFirstRead(self) EXCEPT
                        !.buffer = Reset(@), !.must_reemit_headers = FALSE], 0)

\* Splitter::count_records
count_records(self) == CountRecordsAfterFirstRead(SplitterOnFirstRead(self))

\* ------------------------------------------------------------------------
\* Zero-copy record
\* ------------------------------------------------------------------------
\* ZeroCopyByteRecord::new
ZeroCopyByteRecord(slice, seps, quote) ==
    [slice |-> trim_trailing_crlf(slice), seps |-> seps, quote |-> quote]

\* ZeroCopyByteRecord::len
ZeroCopyLen(record) == Len(record.seps) + 1

\* a get whose field starts on the separator before it
ZeroCopyGetFromSeparator(record, index) ==
    LET len == Len(record.seps)
        start == IF index = 0 THEN 0 ELSE record.seps[index]
        end == IF index = len THEN Len(record.slice) ELSE record.seps[index + 1]
    IN  Slice(record.slice, start, end)

\* ZeroCopyByteRecord::get for a 0-based index <= seps.len
ZeroCopyGet(record, index) ==
    LET len == Len(record.seps)
        start == IF index = 0 THEN 0 ELSE record.seps[index] + 1
        end == IF index = len THEN Len(record.slice) ELSE record.seps[index + 1]
    IN  IF start <= end /\ end <= Len(record.slice)
        THEN Slice(record.slice, start, end) ELSE Panic

\* ZeroCopyByteRecord::get for any 0-based index: None past the last field
get(record, index) ==
    IF index > Len(record.seps) THEN None ELSE ZeroCopyGet(record, index)

\* utils::unquoted: None is told by the flag
unquoted(cell, quote) ==
    LET len == Len(cell)
    IN  IF len >= 2 /\ cell[1] = quote /\ cell[len] = quote
        THEN [some |-> TRUE, cell |-> Slice(cell, 1, len - 1)]
        ELSE [some |-> FALSE, cell |-> cell]

\* utils::unescape_to: the bytes appended to out
RECURSIVE unescape_to(_, _, _)
unescape_to(cell, quote, pos) ==
    LET len == Len(cell)
        offset == memchr(quote, Slice(cell, pos, len))
        limit == pos + offset + 1
    IN  IF pos < len /\ offset # None
        THEN IF limit < len /\ cell[limit + 1] = quote
             THEN Slice(cell, pos, limit) \o unescape_to(cell, quote, limit + 1)
             ELSE Slice(cell, pos, limit) \o Slice(cell, limit, len)
        ELSE Slice(cell, pos, len)

\* an unescape that gives the cell back as it is
unescape_borrowing(cell, quote) == [owned |-> FALSE, bytes |-> cell]

\* the while loop of utils::unescape: the position and the output it ends with
RECURSIVE UnescapeLoop(_, _, _, _)
UnescapeLoop(cell, quote, pos, output) ==
    LET len == Len(cell)
        offset == memchr(quote, Slice(cell, pos, len))
        limit == pos + offset + 1
    IN  IF pos < len /\ offset # None
        THEN IF limit < len /\ cell[limit + 1] = quote
             THEN UnescapeLoop(cell, quote, limit + 1, output \o Slice(cell, pos, limit))
             ELSE [pos |-> limit, output |-> output \o Slice(cell, pos, limit)]
        ELSE [pos |-> pos, output |-> output]

\* the Cow that utils::unescape returns after its loop
UnescapeCow(cell, l) ==
    IF l.output = <<>> THEN [owned |-> FALSE, bytes |-> cell]
    ELSE [owned |-> TRUE, bytes |-> l.output \o Slice(cell, l.pos, Len(cell))]

\* utils::unescape
unescape(cell, quote) == UnescapeCow(cell, UnescapeLoop(cell, quote, 0, <<>>))

\* ZeroCopyByteRecord::unquote for a 0-based index <= seps.len
ZeroCopyUnquote(record, index) ==
    unquoted(ZeroCopyGet(record, index), record.quote).cell

\* the closure of ZeroCopyByteRecord::unescape given the unquoted cell
ZeroCopyUnescapeCell(cell, quote, trimmed) ==
    IF trimmed.some THEN unescape(trimmed.cell, quote)
    ELSE [owned |-> FALSE, bytes |-> cell]

\* ZeroCopyByteRecord::unescape for a 0-based index <= seps.len
ZeroCopyUnescape(record, index) ==
    ZeroCopyUnescapeCell(ZeroCopyUnquote(record, index), record.quote,
                         unquoted(ZeroCopyUnquote(record, index), record.quote))

\* ByteRecord::push_field
push_field(record, bytes) ==
    LET n == Len(record.bounds)
        start == IF n = 0 THEN 0 ELSE record.bounds[n][2]
    IN  [data |-> record.data \o bytes,
         bounds |-> Append(record.bounds, <<start, Len(record.data) + Len(bytes)>>)]

\* ZeroCopyByteRecord::read_byte_record from field index on
RECURSIVE ZeroCopyReadByteRecord(_, _, _)
ZeroCopyReadByteRecord(zc, index, record) ==
    IF index = ZeroCopyLen(zc) THEN record
    ELSE LET cell == ZeroCopyGet(zc, index)
             u == unquoted(cell, zc.quote)
         IN  ZeroCopyReadByteRecord(zc, index + 1,
                 IF u.some THEN push_field(record, unescape_to(u.cell, zc.quote, 0))
                 ELSE push_field(record, cell))

\* ZeroCopyByteRecord::to_byte_record
to_byte_record(zc) == ZeroCopyReadByteRecord(zc, 0, EmptyRecord)

\* ------------------------------------------------------------------------
\* ZeroCopyReader
\* ------------------------------------------------------------------------
\* ZeroCopyReaderBuilder::from_reader
ZeroCopyReaderFromReader(bytes, capacity, delimiter, quote, flexible, has_headers) ==
    [kind |-> "ZeroCopyReader",
     buffer |-> ScratchBufferWithCapacity(capacity, bytes),
     inner |-> CoreReaderNew(delimiter, quote),
     byte_headers |-> EmptyRecord,
     raw_headers |-> [seps |-> <<>>, slice |-> <<>>],
     seps |-> <<>>,
     flexible |-> flexible,
     has_read |-> FALSE,
     must_reemit_headers |-> ~has_headers,
     has_headers |-> has_headers,
     index |-> 0]

NoError == [expected_len |-> 0, len |-> 0, byte |-> 0, index |-> 0]

\* ZeroCopyReader::position
ZeroCopyPosition(self) ==
    IF self.must_reemit_headers THEN 0 ELSE Position(self.buffer)

\* a check that does not wait for the first record to have been read
FieldCountFailsBeforeFirstRead(self, written) ==
    /\ ~self.flexible
    /\ written # Len(self.raw_headers.seps) + 1

\* ZeroCopyReader::check_field_count: TRUE when the call fails
FieldCountFails(self, written) ==
    /\ ~self.flexible
    /\ self.has_read
    /\ written # Len(self.raw_headers.seps) + 1

\* the match on the result of split_record_and_find_separators in
\* ZeroCopyReader::read_byte_record_impl; filled is the reader once fill_buf
\* has run, r what the CoreReader returned
RECURSIVE ZeroCopyImplLoop(_, _)
ZeroCopyImplMatch(filled, byte, r) ==
    LET scanned == [filled EXCEPT !.inner = r.self, !.seps = r.seps]
        counted == [scanned EXCEPT !.index = @ + 1]
        fl == Flush(counted.buffer, r.pos)
        none == ZeroCopyByteRecord(<<>>, <<>>, filled.inner.quote)
    IN  CASE r.result = "End" ->
                [tag |-> "None", record |-> none, error |-> NoError,
                 self |-> [scanned EXCEPT !.buffer = Consume(@, r.pos)]]
          [] r.result \in {"Cr", "Lf"} ->
                ZeroCopyImplLoop([scanned EXCEPT !.buffer = Consume(@, r.pos)], byte)
          [] r.result = "InputEmpty" ->
                ZeroCopyImplLoop([scanned EXCEPT !.buffer = Save(@)], byte)
          [] r.result = "Record" ->
                IF FieldCountFails(counted, Len(counted.seps) + 1)
                THEN [tag |-> "Err", record |-> none,
                      error |-> [expected_len |-> Len(counted.raw_headers.seps) + 1,
                                 len |-> Len(counted.seps) + 1,
                                 byte |-> byte, index |-> counted.index],
                      self |-> counted]
                ELSE [tag |-> "Some",
                      record |-> ZeroCopyByteRecord(fl.slice, counted.seps,
                                                    counted.inner.quote),
                      error |-> NoError,
                      self |-> [counted EXCEPT !.buffer = fl.sb]]

\* the loop of ZeroCopyReader::read_byte_record_impl: saved().len(), fill_buf,
\* then split_record_and_find_separators
ZeroCopyImplLoop(self, byte) ==
    ZeroCopyImplMatch([self EXCEPT !.buffer = FillBuf(self.buffer).sb], byte,
                      split_record_and_find_separators(
                          self.inner, FillBuf(self.buffer).window,
                          Len(Saved(self.buffer)), self.seps))

\* ZeroCopyReader::read_byte_record_impl once the buffer and seps are reset
ZeroCopyImplReset(reset) == ZeroCopyImplLoop(reset, ZeroCopyPosition(reset))

\* ZeroCopyReader::read_byte_record_impl
zero_copy_read_byte_record_impl(self) ==
    ZeroCopyImplReset([self EXCEPT !.buffer = Reset(@), !.seps = <<>>])

\* ZeroCopyReader::on_first_read once the first record was read: r is what
\* read_byte_record_impl returned; its failure is propagated
ZeroCopyHeadersRead(r) ==
    CASE r.tag = "Some" ->
            [tag |-> "Ok", error |-> NoError,
             self |-> [r.self EXCEPT
                         !.raw_headers = [seps |-> r.record.seps,
                                          slice |-> r.record.slice],
                         !.byte_headers = to_byte_record(r.record),
                         !.has_read = TRUE]]
      [] r.tag = "None" ->
            [tag |-> "Ok", error |-> NoError,
             self |-> [r.self EXCEPT
                         !.must_reemit_headers = FALSE,
                         !.raw_headers = [seps |-> <<>>, slice |-> <<>>],
                         !.byte_headers = EmptyRecord,
                         !.has_read = TRUE]]
      [] OTHER -> [tag |-> "Err", error |-> r.error, self |-> r.self]

\* ZeroCopyReader::on_first_read
ZeroCopyOnFirstRead(self) ==
    IF self.has_read THEN [tag |-> "Ok", error |-> NoError, self |-> self]
    ELSE ZeroCopyHeadersRead(zero_copy_read_byte_record_impl(
            [self EXCEPT !.buffer = Consume(FillBuf(self.buffer).sb,
                                            trim_bom(FillBuf(self.buffer).window))]))

\* ZeroCopyReader::read_byte_record after on_first_read
ZeroCopyAfterFirstRead(first) ==
    IF first.tag = "Err"
    THEN [tag |-> "Err",
          record |-> ZeroCopyByteRecord(<<>>, <<>>, first.self.inner.quote),
          error |-> first.error, self |-> first.self]
    ELSE IF first.self.must_reemit_headers
         THEN [tag |-> "Some",
               record |-> ZeroCopyByteRecord(first.self.raw_headers.slice,
                                             first.self.raw_headers.seps,
                                             first.self.inner.quote),
               error |-> NoError,
               self |-> [first.self EXCEPT !.must_reemit_headers = FALSE]]
         ELSE zero_copy_read_byte_record_impl(first.self)

\* ZeroCopyReader::read_byte_record
zero_copy_read_byte_record(self) == ZeroCopyAfterFirstRead(ZeroCopyOnFirstRead(self))

\* ------------------------------------------------------------------------
\* Seeker
\* ------------------------------------------------------------------------
\* the sizes of the cells of a zero-copy record, as its iter() yields them
CellLens(record) ==
    [k \in 1..ZeroCopyLen(record) |-> Len(ZeroCopyGet(record, k - 1))]

\* the sizes of the fields of an owned record, as its iter() yields them
FieldLens(record) == [k \in 1..Len(record.bounds) |-> Len(Field(record, k))]

\* the sum of column k over the sampled records
RECURSIVE ColumnSum(_, _)
ColumnSum(fields_sizes, k) ==
    IF fields_sizes = <<>> THEN 0
    ELSE Head(fields_sizes)[k] + ColumnSum(Tail(fields_sizes), k)

\* the sampling loop of SeekerSample::from_reader
RECURSIVE SampleLoop(_, _, _, _, _)
SampleMatch(r, i, sample_size, record_sizes, fields_sizes) ==
    CASE r.tag = "Some" ->
            SampleLoop(r.self, i + 1, sample_size,
                       Append(record_sizes, Len(r.record.slice) + 1),
                       Append(fields_sizes, CellLens(r.record)))
      [] r.tag = "None" ->
            [tag |-> "Ok", error |-> NoError, i |-> i, record_sizes |-> record_sizes,
             fields_sizes |-> fields_sizes, csv_reader |-> r.self]
      [] OTHER ->
            [tag |-> "Err", error |-> r.error, i |-> i, record_sizes |-> record_sizes,
             fields_sizes |-> fields_sizes, csv_reader |-> r.self]

SampleLoop(csv_reader, i, sample_size, record_sizes, fields_sizes) ==
    IF i < sample_size
    THEN SampleMatch(zero_copy_read_byte_record(csv_reader), i, sample_size,
                     record_sizes, fields_sizes)
    ELSE [tag |-> "Ok", error |-> NoError, i |-> i, record_sizes |-> record_sizes,
          fields_sizes |-> fields_sizes, csv_reader |-> csv_reader]

NoSample ==
    [headers |-> EmptyRecord, record_count |-> 0, max_record_size |-> 0,
     median_record_size |-> 0, initial_position |-> 0, first_record_position |-> 0,
     fields_mean_sizes |-> <<>>, has_reached_eof |-> FALSE, stream_len |-> 0]

\* the end of SeekerSample::from_reader: eof is what the read after the sample
\* returned. fields_mean_sizes holds the sums of the columns, which are the
\* means multiplied by record_count
SampleBuilt(headers, first_record_position, loop, eof, stream_len) ==
    IF eof.tag = "Err"
    THEN [tag |-> "Err", error |-> eof.error, sample |-> NoSample]
    ELSE LET sorted == SortSeq(loop.record_sizes, LAMBDA a, b : a < b)
         IN  [tag |-> "Some", error |-> NoError,
              sample |-> [headers |-> headers,
                          record_count |-> loop.i,
                          max_record_size |-> sorted[Len(sorted)],
                          median_record_size |-> sorted[(Len(sorted) \div 2) + 1],
                          initial_position |-> 0,
                          first_record_position |-> first_record_position,
                          fields_mean_sizes |->
                              [k \in 1..Len(headers.bounds) |->
                                  ColumnSum(loop.fields_sizes, k)],
                          has_reached_eof |-> (eof.tag = "None"),
                          stream_len |-> stream_len]]

\* SeekerSample::from_reader once the sampling loop has run
SampleSampled(headers, first_record_position, loop, stream_len) ==
    CASE loop.tag = "Err" -> [tag |-> "Err", error |-> loop.error, sample |-> NoSample]
      [] loop.i = 0 -> [tag |-> "None", error |-> NoError, sample |-> NoSample]
      [] OTHER -> SampleBuilt(headers, first_record_position, loop,
                              zero_copy_read_byte_record(loop.csv_reader), stream_len)

\* SeekerSample::from_reader once byte_headers has run, for a stream at
\* position 0
SampleHeadersRead(first, sample_size, stream_len) ==
    IF first.tag = "Err"
    THEN [tag |-> "Err", error |-> first.error, sample |-> NoSample]
    ELSE SampleSampled(first.self.byte_headers,
                       IF first.self.has_headers THEN ZeroCopyPosition(first.self) ELSE 0,
                       SampleLoop(first.self, 0, sample_size, <<>>, <<>>),
                       stream_len)

\* ZeroCopyReaderBuilder::from_reader for a builder held as a record
BuilderFromReader(builder, bytes) ==
    ZeroCopyReaderFromReader(bytes, builder.buffer_capacity, builder.delimiter,
                             builder.quote, builder.flexible, builder.has_headers)

\* SeekerSample::from_reader
SeekerSampleFromReader(bytes, csv_reader_builder, sample_size) ==
    SampleHeadersRead(ZeroCopyOnFirstRead(BuilderFromReader(csv_reader_builder, bytes)),
                      sample_size, Len(bytes))

\* SeekerBuilder::from_reader once the sample was taken: the stream was left
\* at its end by the sample
SeekerBuilt(self, bytes, sampled) ==
    [tag |-> sampled.tag, error |-> sampled.error,
     seeker |-> [inner |-> [bytes |-> bytes, pos |-> Len(bytes)],
                 sample |-> sampled.sample,
                 lookahead_factor |-> self.lookahead_factor,
                 builder |-> [buffer_capacity |-> self.buffer_capacity,
                              delimiter |-> self.delimiter, quote |-> self.quote,
                              has_headers |-> FALSE, flexible |-> TRUE],
                 has_headers |-> self.has_headers]]

\* SeekerBuilder::from_reader
SeekerFromReader(self, bytes) ==
    SeekerBuilt(self, bytes,
                SeekerSampleFromReader(bytes,
                    [buffer_capacity |-> self.buffer_capacity,
                     delimiter |-> self.delimiter, quote |-> self.quote,
                     has_headers |-> self.has_headers, flexible |-> FALSE],
                    self.sample_size))

\* SeekerBuilder with the given options
SeekerBuilder(buffer_capacity, has_headers, sample_size, lookahead_factor) ==
    [delimiter |-> Delim, quote |-> Quote, buffer_capacity |-> buffer_capacity,
     has_headers |-> has_headers, sample_size |-> sample_size,
     lookahead_factor |-> lookahead_factor]

NoCandidate == [some |-> FALSE, pos |-> 0, record |-> EmptyRecord]

\* the loop of lookahead: the second record read is the candidate, at the
\* position the reader had once the first was read
RECURSIVE LookaheadLoop(_, _, _, _, _)
LookaheadMatch(r, i, next_record, field_counts, pos) ==
    CASE r.tag = "Some" ->
            LookaheadLoop(r.self, i + 1,
                          IF i = 1
                          THEN [some |-> TRUE, pos |-> pos,
                                record |-> to_byte_record(r.record)]
                          ELSE next_record,
                          IF i > 0 THEN Append(field_counts, ZeroCopyLen(r.record))
                                   ELSE field_counts,
                          ZeroCopyPosition(r.self))
      [] r.tag = "None" ->
            [tag |-> "Ok", error |-> NoError, next_record |-> next_record,
             field_counts |-> field_counts]
      [] OTHER ->
            [tag |-> "Err", error |-> r.error, next_record |-> next_record,
             field_counts |-> field_counts]

LookaheadLoop(csv_reader, i, next_record, field_counts, pos) ==
    LookaheadMatch(zero_copy_read_byte_record(csv_reader), i, next_record,
                   field_counts, pos)

\* the decision of lookahead on what its loop collected
LookaheadDecide(looped, expected_field_count) ==
    LET n == Len(looped.field_counts)
    IN  IF looped.tag = "Err"
        THEN [tag |-> "Err", error |-> looped.error, candidate |-> NoCandidate]
        ELSE IF \/ n < 2
                \/ \E k \in 1..(n - 1) : looped.field_counts[k] # expected_field_count
             THEN [tag |-> "Ok", error |-> NoError, candidate |-> NoCandidate]
             ELSE [tag |-> "Ok", error |-> NoError, candidate |-> looped.next_record]

\* lookahead
lookahead(csv_reader, expected_field_count) ==
    LookaheadDecide(LookaheadLoop(csv_reader, 0, NoCandidate, <<>>, 0),
                    expected_field_count)

RECURSIVE DotProduct(_, _, _)
DotProduct(a, b, n) ==
    IF n = 0 THEN 0 ELSE a[n] * b[n] + DotProduct(a, b, n - 1)

\* cosine: the three sums of its loop over the zipped profile and sizes; the
\* value is intersection / sqrt(self_norm * other_norm)
cosine(profile, other) ==
    LET n == Min(Len(profile), Len(other))
    IN  [self_norm |-> DotProduct(profile, profile, n),
         other_norm |-> DotProduct(other, other, n),
         intersection |-> DotProduct(profile, other, n)]

\* a > b for two cosines taken against the same profile, whatever its scale:
\* a cosine of 0 / 0 is NaN and compares false, and rounding decides between
\* two cosines that are equal as real numbers
CosineGreater(a, b, rounding) ==
    LET lhs == a.intersection * a.intersection * b.self_norm * b.other_norm
        rhs == b.intersection * b.intersection * a.self_norm * a.other_norm
    IN  CASE a.self_norm * a.other_norm = 0 -> FALSE
          [] b.self_norm * b.other_norm = 0 -> FALSE
          [] lhs = rhs -> rounding
          [] OTHER -> lhs > rhs

OutOfBounds(pos, start, end) ==
    [kind |-> "OutOfBounds", pos |-> pos, start |-> start, end |-> end]

NoSeekerError == [kind |-> "none", pos |-> 0, start |-> 0, end |-> 0]

\* what find_record_after returns: the seeker afterwards and, besides the
\* result, the candidates of the two hypotheses
Found(tag, error, pos, record, self, unquoted_found, quoted_found) ==
    [tag |-> tag, error |-> error, pos |-> pos, record |-> record, self |-> self,
     unquoted |-> unquoted_found, quoted |-> quoted_found]

\* the position the stream had when the Seeker was built
initial_position(self) == self.sample.initial_position

\* Seeker::first_record_position
first_record_position(self) == self.sample.first_record_position

\* the shortcut of Seeker::find_record_after for the first record: r is what
\* the reader over the stream returned, and unwrap panics on None
FirstRecordFound(self, r) ==
    LET read == [self EXCEPT !.inner.pos = @ + r.self.buffer.inner.inner.filled]
    IN  CASE r.tag = "Some" ->
                Found("Some", NoSeekerError, first_record_position(self),
                      to_byte_record(r.record), read, NoCandidate, NoCandidate)
          [] r.tag = "None" ->
                Found("Panic", NoSeekerError, 0, EmptyRecord, read,
                      NoCandidate, NoCandidate)
          [] OTHER ->
                Found("Err", [NoSeekerError EXCEPT !.kind = "UnequalLengths"], 0,
                      EmptyRecord, read, NoCandidate, NoCandidate)

\* a match that takes the offset of the quoted candidate in the quote-prefixed
\* buffer for its offset in the scratch
ReconciledUnadjusted(self, from_pos, unquoted_found, quoted_found, rounding) ==
    CASE quoted_found.some ->
            Found("Some", NoSeekerError, from_pos + quoted_found.pos,
                  quoted_found.record, self, unquoted_found, quoted_found)
      [] unquoted_found.some ->
            Found("Some", NoSeekerError, from_pos + unquoted_found.pos,
                  unquoted_found.record, self, unquoted_found, quoted_found)
      [] OTHER ->
            Found("None", NoSeekerError, 0, EmptyRecord, self, unquoted_found,
                  quoted_found)

\* the match of Seeker::find_record_after on the two candidates
Reconciled(self, from_pos, unquoted_found, quoted_found, rounding) ==
    CASE ~unquoted_found.some /\ ~quoted_found.some ->
            Found("None", NoSeekerError, 0, EmptyRecord, self, unquoted_found, quoted_found)
      [] unquoted_found.some /\ ~quoted_found.some ->
            Found("Some", NoSeekerError, from_pos + unquoted_found.pos, unquoted_found.record,
                  self, unquoted_found, quoted_found)
      [] ~unquoted_found.some /\ quoted_found.some ->
            Found("Some", NoSeekerError, from_pos + quoted_found.pos - 1, quoted_found.record,
                  self, unquoted_found, quoted_found)
      [] OTHER ->
            IF unquoted_found.pos = quoted_found.pos - 1
            THEN Found("Some", NoSeekerError, from_pos + unquoted_found.pos,
                       unquoted_found.record, self, unquoted_found, quoted_found)
            ELSE IF CosineGreater(
                        cosine(self.sample.fields_mean_sizes, FieldLens(unquoted_found.record)),
                        cosine(self.sample.fields_mean_sizes, FieldLens(quoted_found.record)),
                        rounding)
                 THEN Found("Some", NoSeekerError, from_pos + unquoted_found.pos,
                            unquoted_found.record, self, unquoted_found, quoted_found)
                 ELSE Found("Some", NoSeekerError, from_pos + quoted_found.pos - 1,
                            quoted_found.record, self, unquoted_found, quoted_found)

PrimingQuote == 34

\* the reader of the quoted hypothesis: one quote chained with the scratch
QuotedReader(builder, scratch) ==
    [BuilderFromReader(builder, <<PrimingQuote>> \o scratch)
        EXCEPT !.buffer.inner.inner.chained = 1]

\* Seeker::find_record_after once both lookaheads have run
Lookaheads(self, from_pos, unquoted_looked, quoted_looked, rounding) ==
    IF unquoted_looked.tag = "Err" \/ quoted_looked.tag = "Err"
    THEN Found("Err", [NoSeekerError EXCEPT !.kind = "UnequalLengths"], 0,
               EmptyRecord, self, NoCandidate, NoCandidate)
    ELSE Reconciled(self, from_pos, unquoted_looked.candidate,
                    quoted_looked.candidate, rounding)

\* Seeker::find_record_after once the scratch was read from the stream
Scratched(self, from_pos, scratch, rounding) ==
    Lookaheads(self, from_pos,
               lookahead(BuilderFromReader(self.builder, scratch),
                         Len(self.sample.headers.bounds)),
               lookahead(QuotedReader(self.builder, scratch),
                         Len(self.sample.headers.bounds)),
               rounding)

\* the bytes Seeker::find_record_after takes from the stream at from_pos
Scratch(self, from_pos) ==
    Slice(self.inner.bytes, from_pos,
          Min(from_pos + self.lookahead_factor * self.sample.max_record_size,
              Len(self.inner.bytes)))

\* Seeker::find_record_after
find_record_after(self, from_pos, rounding) ==
    CASE from_pos < first_record_position(self) \/ from_pos >= self.sample.stream_len ->
            Found("Err",
                  OutOfBounds(from_pos, first_record_position(self),
                              self.sample.stream_len),
                  0, EmptyRecord, self, NoCandidate, NoCandidate)
      [] from_pos = first_record_position(self) ->
            FirstRecordFound(
                [self EXCEPT !.inner.pos = from_pos],
                zero_copy_read_byte_record(
                    BuilderFromReader(self.builder,
                        Slice(self.inner.bytes, from_pos, Len(self.inner.bytes)))))
      [] OTHER ->
            Scratched(
                [self EXCEPT !.inner.pos = from_pos + Len(Scratch(self, from_pos))],
                from_pos, Scratch(self, from_pos), rounding)

\* the loop of Seeker::segments: it stops at the first lookup that finds
\* nothing; complete tells that none did
RECURSIVE SegmentsLoop(_, _, _, _, _, _)
SegmentsMatch(r, i, count, adjusted_file_len, offsets, rounding) ==
    CASE r.tag = "Some" ->
            SegmentsLoop(r.self, i + 1, count, adjusted_file_len,
                         Append(offsets, r.pos), rounding)
      [] r.tag = "None" ->
            [tag |-> "Ok", offsets |-> offsets, complete |-> FALSE, self |-> r.self]
      [] OTHER ->
            [tag |-> r.tag, offsets |-> offsets, complete |-> FALSE, self |-> r.self]

SegmentsLoop(self, i, count, adjusted_file_len, offsets, rounding) ==
    IF i >= count
    THEN [tag |-> "Ok", offsets |-> offsets, complete |-> TRUE, self |-> self]
    ELSE SegmentsMatch(
            find_record_after(self,
                ((i * adjusted_file_len) \div count) + first_record_position(self),
                rounding),
            i, count, adjusted_file_len, offsets, rounding)

\* offsets.windows(2)
Windows(offsets) == [k \in 1..(Len(offsets) - 1) |-> <<offsets[k], offsets[k + 1]>>]

\* the segments of Seeker::segments from what its loop collected
Segmented(looped, file_len, count) ==
    [tag |-> looped.tag, ranges |-> Windows(Append(looped.offsets, file_len)),
     complete |-> looped.complete, count |-> count, self |-> looped.self]

\* the count of Seeker::segments once adjusted
AdjustedCount(self, count) ==
    LET chunks == self.sample.stream_len
                    \div (self.sample.max_record_size * self.lookahead_factor)
        capped == Min(count, IF chunks = 0 THEN 0 ELSE chunks - 1)
    IN  IF capped < 1 THEN 1 ELSE capped

\* Seeker::segments
segments(self, count, rounding) ==
    IF self.sample.record_count < count
    THEN [tag |-> "Ok",
          ranges |-> <<<<first_record_position(self), self.sample.stream_len>>>>,
          complete |-> TRUE, count |-> count, self |-> self]
    ELSE Segmented(
            SegmentsLoop(self, 1, AdjustedCount(self, count),
                         self.sample.stream_len - first_record_position(self),
                         <<first_record_position(self)>>, rounding),
            self.sample.stream_len, AdjustedCount(self, count))

\* the bytes in reverse order
Reversed(bytes) == [k \in 1..Len(bytes) |-> bytes[Len(bytes) + 1 - k]]

\* ReverseReader::new
ReverseReaderNew(bytes, filesize, offset) ==
    [input |-> bytes, offset |-> offset, ptr |-> filesize]

\* a read that returns the bytes in the order of the stream
ReverseReaderReadForward(self, buff_size) ==
    IF self.ptr = self.offset
    THEN [bytes |-> <<>>, self |-> self]
    ELSE IF self.offset + buff_size > self.ptr
         THEN [bytes |-> Slice(self.input, self.offset, self.ptr),
               self |-> [self EXCEPT !.ptr = self.offset]]
         ELSE [bytes |-> Slice(self.input, self.ptr - buff_size, self.ptr),
               self |-> [self EXCEPT !.ptr = @ - buff_size]]

\* ReverseReader::read into a buffer of buff_size bytes: the bytes read and the
\* reader afterwards
ReverseReaderRead(self, buff_size) ==
    IF self.ptr = self.offset
    THEN [bytes |-> <<>>, self |-> self]
    ELSE IF self.offset + buff_size > self.ptr
         THEN [bytes |-> Reversed(Slice(self.input, self.offset, self.ptr)),
               self |-> [self EXCEPT !.ptr = self.offset]]
         ELSE [bytes |-> Reversed(Slice(self.input, self.ptr - buff_size, self.ptr)),
               self |-> [self EXCEPT !.ptr = @ - buff_size]]

\* what a BufReader of the capacity gets from the ReverseReader, one read
\* after the other until a read returns 0
RECURSIVE ReverseReadToEnd(_, _)
ReverseReadNext(r, capacity) ==
    IF r.bytes = <<>> THEN <<>> ELSE r.bytes \o ReverseReadToEnd(r.self, capacity)

ReverseReadToEnd(self, capacity) ==
    ReverseReadNext(ReverseReaderRead(self, capacity), capacity)

\* a push that leaves the bytes of the field in the order given
push_field_as_given(record, bytes) ==
    [data |-> record.data \o bytes,
     bounds |-> Append(record.bounds,
                       <<Len(record.data), Len(record.data) + Len(bytes)>>)]

\* ByteRecord::push_field_in_reverse
push_field_in_reverse(record, bytes) ==
    LET start == IF Len(record.bounds) = 0 THEN 0
                 ELSE record.bounds[Len(record.bounds)][2]
    IN  [data |-> Slice(record.data \o bytes, 0, start)
                    \o Reversed(Slice(record.data \o bytes, start,
                                       Len(record.data) + Len(bytes))),
         bounds |-> Append(record.bounds, <<start, Len(record.data) + Len(bytes)>>)]

\* ZeroCopyByteRecord::to_byte_record_in_reverse: the cells unescaped, from
\* the last to the first
RECURSIVE ToByteRecordInReverse(_, _, _)
ToByteRecordInReverse(zc, remaining, record) ==
    IF remaining = 0 THEN record
    ELSE ToByteRecordInReverse(
            zc, remaining - 1,
            push_field_in_reverse(record, ZeroCopyUnescape(zc, remaining - 1).bytes))

to_byte_record_in_reverse(zc) == ToByteRecordInReverse(zc, ZeroCopyLen(zc), EmptyRecord)

\* Seeker::first_byte_record once the reader over the stream returned r
FirstByteRecordRead(self, r) ==
    [tag |-> r.tag,
     record |-> IF r.tag = "Some" THEN to_byte_record(r.record) ELSE EmptyRecord,
     self |-> [self EXCEPT !.inner.pos = first_record_position(self)
                                           + r.self.buffer.inner.inner.filled]]

\* Seeker::first_byte_record
first_byte_record(self) ==
    FirstByteRecordRead(self,
        zero_copy_read_byte_record(
            BuilderFromReader(self.builder,
                Slice(self.inner.bytes, first_record_position(self),
                      Len(self.inner.bytes)))))

\* Seeker::last_byte_record once the reader over the ReverseReader returned r
LastByteRecordRead(self, r) ==
    [tag |-> r.tag,
     record |-> IF r.tag = "Some" THEN to_byte_record_in_reverse(r.record)
                ELSE EmptyRecord,
     self |-> [self EXCEPT !.inner.pos = self.sample.stream_len
                                           - r.self.buffer.inner.inner.filled]]

\* Seeker::last_byte_record
last_byte_record(self) ==
    LastByteRecordRead(self,
        zero_copy_read_byte_record(
            BuilderFromReader(self.builder,
                ReverseReadToEnd(
                    ReverseReaderNew(self.inner.bytes, self.sample.stream_len,
                                     self.sample.first_record_position),
                    self.builder.buffer_capacity))))

\* ------------------------------------------------------------------------
\* TotalReader
\* ------------------------------------------------------------------------
\* TotalReaderBuilder::from_bytes
TotalReaderFromBytes(bytes, delimiter, quote, has_headers) ==
    [kind |-> "TotalReader",
     inner |-> CoreReaderNew(delimiter, quote),
     bytes |-> bytes,
     pos |-> 0,
     headers |-> EmptyRecord,
     has_read |-> FALSE,
     has_headers |-> has_headers]

\* the loop of TotalReader::read_byte_record_impl over bytes[pos..]; its
\* Skip arm takes the Cr and Lf results of the CoreReader
RECURSIVE TotalImplLoop(_, _)
TotalImplLoop(self, rb) ==
    LET r == read_record(self.inner, Slice(self.bytes, self.pos, Len(self.bytes)), rb)
        next == [self EXCEPT !.pos = @ + r.pos, !.inner = r.self]
    IN  IF r.result = "End" THEN [ret |-> FALSE, self |-> next, record |-> r.rb.record]
        ELSE IF r.result = "Record"
             THEN [ret |-> TRUE, self |-> next, record |-> r.rb.record]
             ELSE TotalImplLoop(next, r.rb)

\* TotalReader::read_byte_record_impl: the record is cleared and wrapped
total_read_byte_record_impl(self) == TotalImplLoop(self, wrap(EmptyRecord))

\* TotalReader::on_first_read once the first record was read: r is what
\* read_byte_record_impl returned
TotalHeadersRead(r, bom_len, has_headers) ==
    [r.self EXCEPT !.pos = IF r.ret /\ ~has_headers THEN bom_len ELSE @,
                   !.headers = r.record,
                   !.has_read = TRUE]

\* TotalReader::on_first_read
TotalOnFirstRead(self) ==
    IF self.has_read THEN self
    ELSE TotalHeadersRead(
            total_read_byte_record_impl([self EXCEPT !.pos = @ + trim_bom(self.bytes)]),
            trim_bom(self.bytes), self.has_headers)

\* TotalReader::read_byte_record
total_read_byte_record(self) == total_read_byte_record_impl(TotalOnFirstRead(self))

\* the loop of TotalReader::count_records over bytes[pos..]
RECURSIVE TotalCountLoop(_, _)
TotalCountMatch(self, r, count) ==
    CASE r.result = "End" ->
            [count |-> count, self |-> [self EXCEPT !.pos = @ + r.pos, !.inner = r.self]]
      [] r.result = "Record" ->
            TotalCountLoop([self EXCEPT !.pos = @ + r.pos, !.inner = r.self], count + 1)
      [] OTHER ->
            TotalCountLoop([self EXCEPT !.pos = @ + r.pos, !.inner = r.self], count)

TotalCountLoop(self, count) ==
    TotalCountMatch(self,
                    split_record(self.inner, Slice(self.bytes, self.pos, Len(self.bytes))),
                    count)

\* count.saturating_sub(1) when there are headers
TotalCounted(looped, has_headers) ==
    [count |-> IF has_headers /\ looped.count > 0 THEN looped.count - 1
               ELSE looped.count,
     self |-> looped.self]

\* a count that takes nothing off for the headers
TotalCountedAsIs(looped, has_headers) == looped

\* TotalReader::count_records
total_count_records(self) ==
    TotalCounted(TotalCountLoop(TotalOnFirstRead(self), 0), self.has_headers)

\* the loop of TotalReader::split_record: the slice returned starts where the
\* reader was when the call was made
RECURSIVE TotalSplitLoop(_, _)
TotalSplitMatch(self, r, starting_pos) ==
    CASE r.result = "End" ->
            [some |-> FALSE, slice |-> <<>>,
             self |-> [self EXCEPT !.pos = @ + r.pos, !.inner = r.self]]
      [] r.result = "Record" ->
            [some |-> TRUE, slice |-> Slice(self.bytes, starting_pos, self.pos + r.pos),
             self |-> [self EXCEPT !.pos = @ + r.pos, !.inner = r.self]]
      [] OTHER ->
            TotalSplitLoop([self EXCEPT !.pos = @ + r.pos, !.inner = r.self],
                           starting_pos)

TotalSplitLoop(self, starting_pos) ==
    TotalSplitMatch(self,
                    split_record(self.inner, Slice(self.bytes, self.pos, Len(self.bytes))),
                    starting_pos)

\* TotalReader::split_record once on_first_read has run
TotalSplitAfterFirstRead(first) == TotalSplitLoop(first, first.pos)

\* TotalReader::split_record
total_split_record(self) == TotalSplitAfterFirstRead(TotalOnFirstRead(self))

\* ------------------------------------------------------------------------
\* Writer
\* ------------------------------------------------------------------------
\* WriterBuilder::from_writer; buffer holds every byte handed to the
\* BufWriter, in order, which is what into_inner leaves in the sink
WriterFromWriter(delimiter, quote, flexible) ==
    [kind |-> "Writer",
     delimiter |-> delimiter,
     quote |-> quote,
     buffer |-> <<>>,
     flexible |-> flexible,
     field_count |-> None]

\* the must_quote table filled by WriterBuilder::from_writer
must_quote(self, byte) ==
    byte = CR \/ byte = LF \/ byte = self.delimiter \/ byte = self.quote

\* the bytes should_quote looks at in one round of its unrolled loop
UNROLLED == 8

\* a scan of the whole rounds that leaves the tail of a long cell out
RECURSIVE should_quote_leaving_tail_out(_, _)
should_quote_leaving_tail_out(self, cell) ==
    IF Len(cell) >= UNROLLED
    THEN IF \E i \in 1..UNROLLED : must_quote(self, cell[i])
         THEN TRUE
         ELSE Len(cell) >= 2 * UNROLLED
                /\ should_quote_leaving_tail_out(self, Slice(cell, UNROLLED, Len(cell)))
    ELSE \E i \in 1..Len(cell) : must_quote(self, cell[i])

\* Writer::should_quote: rounds of UNROLLED bytes while none is marked, then
\* the tail
RECURSIVE should_quote(_, _)
should_quote(self, cell) ==
    IF Len(cell) >= UNROLLED
    THEN IF \E i \in 1..UNROLLED : must_quote(self, cell[i])
         THEN TRUE
         ELSE should_quote(self, Slice(cell, UNROLLED, Len(cell)))
    ELSE \E i \in 1..Len(cell) : must_quote(self, cell[i])

\* Iterator::position(|b| b == byte): index of the first such item, or None
RECURSIVE position(_, _)
position(s, byte) ==
    IF s = <<>> THEN None
    ELSE IF Head(s) = byte THEN 0
         ELSE IF position(Tail(s), byte) = None THEN None
              ELSE position(Tail(s), byte) + 1

\* the loop of write_quoted_cell for a cell shorter than UNROLLED bytes:
\* the bytes written from cell[i..] on
RECURSIVE WriteQuotedShort(_, _, _)
WriteQuotedShort(cell, quote, i) ==
    IF i < Len(cell)
    THEN IF position(Slice(cell, i, Len(cell)), quote) = None
         THEN Slice(cell, i, Len(cell))
         ELSE Slice(cell, i, i + position(Slice(cell, i, Len(cell)), quote) + 1)
                \o <<quote>>
                \o WriteQuotedShort(cell, quote,
                                    i + position(Slice(cell, i, Len(cell)), quote) + 1)
    ELSE <<>>

\* the loop of write_quoted_cell for the other cells
RECURSIVE WriteQuotedLong(_, _, _)
WriteQuotedLong(cell, quote, i) ==
    IF i < Len(cell)
    THEN IF memchr(quote, Slice(cell, i, Len(cell))) = None
         THEN Slice(cell, i, Len(cell))
         ELSE Slice(cell, i, i + memchr(quote, Slice(cell, i, Len(cell))) + 1)
                \o <<quote>>
                \o WriteQuotedLong(cell, quote,
                                   i + memchr(quote, Slice(cell, i, Len(cell))) + 1)
    ELSE <<>>

\* a quoted cell whose quote bytes are not doubled
write_quoted_cell_without_doubling(self, cell) ==
    [self EXCEPT !.buffer = @ \o <<self.quote>> \o cell \o <<self.quote>>]

\* Writer::write_quoted_cell
write_quoted_cell(self, cell) ==
    [self EXCEPT !.buffer =
        @ \o <<self.quote>>
          \o (IF Len(cell) < UNROLLED THEN WriteQuotedShort(cell, self.quote, 0)
              ELSE WriteQuotedLong(cell, self.quote, 0))
          \o <<self.quote>>]

NoWriteError == [expected_len |-> 0, len |-> 0, pos |-> None]

\* a check that records the field count of every record it is given
writer_check_field_count_recording_last(self, written) ==
    IF self.flexible THEN [ok |-> TRUE, error |-> NoWriteError, self |-> self]
    ELSE IF self.field_count # None /\ written # self.field_count
         THEN [ok |-> FALSE,
               error |-> [expected_len |-> self.field_count, len |-> written,
                          pos |-> None],
               self |-> [self EXCEPT !.field_count = written]]
         ELSE [ok |-> TRUE, error |-> NoWriteError,
               self |-> [self EXCEPT !.field_count = written]]

\* Writer::check_field_count
writer_check_field_count(self, written) ==
    IF self.flexible THEN [ok |-> TRUE, error |-> NoWriteError, self |-> self]
    ELSE IF self.field_count # None
         THEN IF written # self.field_count
              THEN [ok |-> FALSE,
                    error |-> [expected_len |-> self.field_count, len |-> written,
                               pos |-> None],
                    self |-> self]
              ELSE [ok |-> TRUE, error |-> NoWriteError, self |-> self]
         ELSE [ok |-> TRUE, error |-> NoWriteError,
               self |-> [self EXCEPT !.field_count = written]]

\* the delimiter written before every cell but the first
WriteDelimiter(self, index) ==
    IF index = 1 THEN self ELSE [self EXCEPT !.buffer = Append(@, self.delimiter)]

\* the body of the loop of write_record for a cell, the delimiter written
WriteCell(self, cell) ==
    IF should_quote(self, cell) THEN write_quoted_cell(self, cell)
    ELSE [self EXCEPT !.buffer = @ \o cell]

\* the loop of write_record from the cell of the given index on
RECURSIVE WriteCells(_, _, _)
WriteCells(self, record, index) ==
    IF index > Len(record) THEN self
    ELSE WriteCells(WriteCell(WriteDelimiter(self, index), record[index]),
                    record, index + 1)

\* the loop of write_record_no_quoting from the cell of the given index on
RECURSIVE WriteCellsNoQuoting(_, _, _)
WriteCellsNoQuoting(self, record, index) ==
    IF index > Len(record) THEN self
    ELSE WriteCellsNoQuoting(
            [WriteDelimiter(self, index) EXCEPT !.buffer = @ \o record[index]],
            record, index + 1)

\* the end of write_record and of write_record_no_quoting once the check ran
WriteTerminator(c) ==
    IF c.ok
    THEN [ok |-> TRUE, error |-> NoWriteError,
          self |-> [c.self EXCEPT !.buffer = Append(@, LF)]]
    ELSE c

\* an end of record that writes nothing for a lone empty cell
WriteRecordEndWithoutQuotes(self, written, empty) ==
    WriteTerminator(writer_check_field_count(self, written))

\* the end of write_record and of write_record_no_quoting: the two quotes
\* of a lone empty cell, the check and the terminator.  A cell is empty
\* when the loop saw an empty cell.
WriteRecordEnd(self, written, empty) ==
    WriteTerminator(writer_check_field_count(
        IF written = 1 /\ empty
        THEN [self EXCEPT !.buffer = @ \o <<self.quote, self.quote>>]
        ELSE self,
        written))

\* Writer::write_record over the cells of record
write_record(self, record) ==
    WriteRecordEnd(WriteCells(self, record, 1), Len(record),
                   \E i \in 1..Len(record) : record[i] = <<>>)

\* Writer::write_record_no_quoting over the cells of record
write_record_no_quoting(self, record) ==
    WriteRecordEnd(WriteCellsNoQuoting(self, record, 1), Len(record),
                   \E i \in 1..Len(record) : record[i] = <<>>)

\* Writer::write_byte_record: the cells are those of ByteRecord::iter
write_byte_record(self, record) == write_record(self, Fields(record))

\* ZeroCopyByteRecord::iter collected: the cells as they are in the slice
ZeroCopyIter(record) ==
    [i \in 1..ZeroCopyLen(record) |-> ZeroCopyGet(record, i - 1)]

\* ZeroCopyByteRecord::unescaped_iter collected
ZeroCopyUnescapedIter(record) ==
    [i \in 1..ZeroCopyLen(record) |-> ZeroCopyUnescape(record, i - 1).bytes]

\* Writer::write_zero_copy_byte_record
write_zero_copy_byte_record(self, record) ==
    IF record.quote = self.quote
    THEN write_record_no_quoting(self, ZeroCopyIter(record))
    ELSE write_record(self, ZeroCopyUnescapedIter(record))

\* ------------------------------------------------------------------------
\* A Splitter or a ZeroCopyReader driven over a stream
\* ------------------------------------------------------------------------
RecordInputs == SeqsUpTo(Alphabet, MaxRecLen)

\* the calls a driver makes before it gives up on a reader that keeps failing
MaxCalls == MaxRecLen + 2

\* what one call returned
Returned(tag, slice, seps, error, count) ==
    [tag |-> tag, slice |-> slice, seps |-> seps, error |-> error, count |-> count]

\* count_records takes the Splitter by value: no call can follow it
Counted == out # <<>> /\ out[Len(out)].tag = "Count"

InitRecords ==
    /\ input \in RecordInputs
    /\ cap \in Capacities
    /\ \/ \E h \in BOOLEAN :
            reader = SplitterFromReader(input, cap, Delim, Quote, h)
       \/ \E f \in BOOLEAN, h \in BOOLEAN :
            reader = ZeroCopyReaderFromReader(input, cap, Delim, Quote, f, h)
    /\ out = <<>>
    /\ done = FALSE
    /\ WriterIdle
    /\ CoreIdle
    /\ SearchIdle

\* the effect of a Splitter::split_record call that returned r
SplitterSplitReturns(r) ==
    /\ reader' = r.self
    /\ out' = IF r.some
              THEN Append(out, Returned("Some", r.slice, <<>>, NoError, 0))
              ELSE out
    /\ done' = ~r.some

SplitterSplitRecord ==
    /\ reader.kind = "Splitter"
    /\ ~Counted
    /\ SplitterSplitReturns(SplitterSplit(reader))
    /\ UNCHANGED <<input, cap, writer>>
    /\ UNCHANGED core_vars
    /\ UNCHANGED search_vars

\* the effect of a Splitter::count_records call that returned r
SplitterCountReturns(r) ==
    /\ reader' = r.self
    /\ out' = Append(out, Returned("Count", <<>>, <<>>, NoError, r.count))
    /\ done' = TRUE

SplitterCountRecords ==
    /\ reader.kind = "Splitter"
    /\ ~Counted
    /\ SplitterCountReturns(count_records(reader))
    /\ UNCHANGED <<input, cap, writer>>
    /\ UNCHANGED core_vars
    /\ UNCHANGED search_vars

\* the effect of a ZeroCopyReader::read_byte_record call that returned r
ZeroCopyReturns(r) ==
    /\ reader' = r.self
    /\ out' = CASE r.tag = "Some" ->
                     Append(out, Returned("Some", r.record.slice, r.record.seps,
                                          NoError, 0))
                [] r.tag = "Err" ->
                     Append(out, Returned("Err", <<>>, <<>>, r.error, 0))
                [] OTHER -> out
    /\ done' = (r.tag = "None")

ZeroCopyReaderReadByteRecord ==
    /\ reader.kind = "ZeroCopyReader"
    /\ Len(out) < MaxCalls
    /\ ZeroCopyReturns(zero_copy_read_byte_record(reader))
    /\ UNCHANGED <<input, cap, writer>>
    /\ UNCHANGED core_vars
    /\ UNCHANGED search_vars

NextRecords ==
    \/ SplitterSplitRecord
    \/ SplitterCountRecords
    \/ ZeroCopyReaderReadByteRecord

SpecRecords == InitRecords /\ [][NextRecords]_vars

\* ------------------------------------------------------------------------
\* A ZeroCopyReader or a TotalReader asked for its headers and its records
\* ------------------------------------------------------------------------
\* the bytes that may follow a byte order mark, whole or cut short
MaxBomBody == 1

\* the streams read: the record inputs, and a whole or partial byte order
\* mark followed by a few bytes
FirstReadInputs ==
    RecordInputs \cup
    {Slice(BOM, 0, k) \o body : k \in 1..Len(BOM), body \in SeqsUpTo(Alphabet, MaxBomBody)}

InitFirstRead ==
    /\ input \in FirstReadInputs
    /\ \/ /\ cap \in Capacities
          /\ \E f \in BOOLEAN, h \in BOOLEAN :
                reader = ZeroCopyReaderFromReader(input, cap, Delim, Quote, f, h)
       \/ /\ cap = 0
          /\ \E h \in BOOLEAN : reader = TotalReaderFromBytes(input, Delim, Quote, h)
    /\ out = <<>>
    /\ done = FALSE
    /\ WriterIdle
    /\ CoreIdle
    /\ SearchIdle

\* ZeroCopyReader::byte_headers: the headers returned are reader'.byte_headers
ZeroCopyReaderByteHeaders ==
    /\ reader.kind = "ZeroCopyReader"
    /\ reader' = ZeroCopyOnFirstRead(reader).self
    /\ UNCHANGED <<input, cap, out, done, writer>>
    /\ UNCHANGED core_vars
    /\ UNCHANGED search_vars

\* TotalReader::byte_headers: the headers returned are reader'.headers
TotalReaderByteHeaders ==
    /\ reader.kind = "TotalReader"
    /\ reader' = TotalOnFirstRead(reader)
    /\ UNCHANGED <<input, cap, out, done, writer>>
    /\ UNCHANGED core_vars
    /\ UNCHANGED search_vars

\* the effect of a TotalReader::read_byte_record call that returned r
TotalReaderReturns(r) ==
    /\ reader' = r.self
    /\ out' = IF r.ret THEN Append(out, [tag |-> "Some", fields |-> Fields(r.record)])
              ELSE out
    /\ done' = ~r.ret

TotalReaderReadByteRecord ==
    /\ reader.kind = "TotalReader"
    /\ TotalReaderReturns(total_read_byte_record(reader))
    /\ UNCHANGED <<input, cap, writer>>
    /\ UNCHANGED core_vars
    /\ UNCHANGED search_vars

NextFirstRead ==
    \/ ZeroCopyReaderByteHeaders
    \/ ZeroCopyReaderReadByteRecord
    \/ TotalReaderByteHeaders
    \/ TotalReaderReadByteRecord

SpecFirstRead == InitFirstRead /\ [][NextFirstRead]_vars

\* ------------------------------------------------------------------------
\* A Writer given records to write
\* ------------------------------------------------------------------------
\* the cells of the records written
WriterCells == {<<>>, <<Letter>>, <<Quote>>}

\* the fields of the longest record written
MaxFields == 3

\* the calls made on one Writer
MaxWrites == 3

\* the records written: no cell, or up to MaxFields times the same cell
WriterRecords == {[i \in 1..n |-> cell] : n \in 0..MaxFields, cell \in WriterCells}

\* what one call on the Writer returned, with the record it was given
Wrote(r, record, quoting) ==
    [ok |-> r.ok, error |-> r.error, record |-> record, quoting |-> quoting]

InitWriter ==
    /\ input = <<>>
    /\ cap = 0
    /\ reader = [kind |-> "none"]
    /\ out = <<>>
    /\ done = FALSE
    /\ \E f \in BOOLEAN : writer = WriterFromWriter(Delim, Quote, f)
    /\ CoreIdle
    /\ SearchIdle

\* the effect of a call on the Writer that returned r
WriterReturns(r, record, quoting) ==
    /\ writer' = r.self
    /\ out' = Append(out, Wrote(r, record, quoting))

WriterWriteRecord ==
    /\ writer.kind = "Writer"
    /\ reader.kind = "none"
    /\ Len(out) < MaxWrites
    /\ \E record \in WriterRecords : WriterReturns(write_record(writer, record), record, TRUE)
    /\ UNCHANGED <<input, cap, reader, done>>
    /\ UNCHANGED core_vars
    /\ UNCHANGED search_vars

WriterWriteRecordNoQuoting ==
    /\ writer.kind = "Writer"
    /\ reader.kind = "none"
    /\ Len(out) < MaxWrites
    /\ \E record \in WriterRecords :
            WriterReturns(write_record_no_quoting(writer, record), record, FALSE)
    /\ UNCHANGED <<input, cap, reader, done>>
    /\ UNCHANGED core_vars
    /\ UNCHANGED search_vars

NextWriter ==
    \/ WriterWriteRecord
    \/ WriterWriteRecordNoQuoting

SpecWriter == InitWriter /\ [][NextWriter]_vars

\* ------------------------------------------------------------------------
\* A Writer given one cell
\* ------------------------------------------------------------------------
\* the length of the longest cell: two rounds of the unrolled scan and a tail
MaxCell == 17

\* the marked bytes of a cell
MaxMarked == 2

\* the bytes the must_quote table marks for Delim and Quote
Marks == {CR, LF, Delim, Quote}

\* cells of letters with up to MaxMarked occurrences of one marked byte
Cells ==
    UNION {{Haystack(len, hot, byte) : hot \in SubsetsUpTo(1..len, MaxMarked),
                                       byte \in Marks} : len \in 0..MaxCell}

InitCell ==
    /\ input \in Cells
    /\ cap = 0
    /\ reader = [kind |-> "cell"]
    /\ out = <<>>
    /\ done = FALSE
    /\ writer = WriterFromWriter(Delim, Quote, FALSE)
    /\ CoreIdle
    /\ SearchIdle

\* write_record of the record made of the one cell
WriterWriteCell ==
    /\ reader.kind = "cell"
    /\ out = <<>>
    /\ WriterReturns(write_record(writer, <<input>>), <<input>>, TRUE)
    /\ UNCHANGED <<input, cap, reader, done>>
    /\ UNCHANGED core_vars
    /\ UNCHANGED search_vars

NextCell == WriterWriteCell

SpecCell == InitCell /\ [][NextCell]_vars

\* ------------------------------------------------------------------------
\* A cell written quoted and unescaped
\* ------------------------------------------------------------------------
InitUnescape ==
    /\ input \in RecordInputs \cup Cells
    /\ cap = 0
    /\ reader = [kind |-> "unescape"]
    /\ out = <<>>
    /\ done = FALSE
    /\ writer = WriterFromWriter(Delim, Quote, FALSE)
    /\ CoreIdle
    /\ SearchIdle

\* write_quoted_cell of the cell
WriterWriteQuotedCell ==
    /\ reader.kind = "unescape"
    /\ writer.buffer = <<>>
    /\ writer' = write_quoted_cell(writer, input)
    /\ UNCHANGED <<input, cap, reader, out, done>>
    /\ UNCHANGED core_vars
    /\ UNCHANGED search_vars

\* the effect of an unescape that returned cow
UnescapeReturns(trimmed, cow) ==
    /\ out' = <<[trimmed |-> trimmed, cow |-> cow]>>
    /\ UNCHANGED <<input, cap, reader, done, writer>>
    /\ UNCHANGED core_vars
    /\ UNCHANGED search_vars

\* utils::unescape of the bytes written
UtilsUnescape ==
    /\ reader.kind = "unescape"
    /\ writer.buffer # <<>>
    /\ out = <<>>
    /\ UnescapeReturns(FALSE, unescape(writer.buffer, writer.quote))

\* utils::unescape of what utils::unquoted leaves of the bytes written
UtilsUnquotedUnescape ==
    /\ reader.kind = "unescape"
    /\ writer.buffer # <<>>
    /\ out = <<>>
    /\ UnescapeReturns(TRUE, unescape(unquoted(writer.buffer, writer.quote).cell,
                                      writer.quote))

NextUnescape ==
    \/ WriterWriteQuotedCell
    \/ UtilsUnescape
    \/ UtilsUnquotedUnescape

SpecUnescape == InitUnescape /\ [][NextUnescape]_vars

\* ------------------------------------------------------------------------
\* A ScratchBuffer driven directly
\* ------------------------------------------------------------------------
\* the length of the longest stream under a bare ScratchBuffer
MaxStream == 4

\* the capacities of the BufReader under a bare ScratchBuffer
BufferCapacities == {1, 2, 3}

\* a stream whose bytes are their own offsets plus one
Stream(n) == [i \in 1..n |-> i]

\* the ScratchBuffer under test; flushed: a flush followed the last reset;
\* moved: a consume or a save once took bytes of the buffer between a flush
\* of the window and the reset that follows it
Driven(sb, flushed, moved) ==
    [kind |-> "ScratchBuffer", buffer |-> sb, flushed |-> flushed, moved |-> moved]

\* what the last call was and what it returned; offset is the offset in the
\* stream of the first byte of the BufReader's buffer when the call was made
Called(op, amt, slice, offset) ==
    [op |-> op, amt |-> amt, slice |-> slice, offset |-> offset]

InitBuffer ==
    /\ \E n \in 0..MaxStream : input = Stream(n)
    /\ cap \in BufferCapacities
    /\ reader = Driven(ScratchBufferWithCapacity(cap, input), FALSE, FALSE)
    /\ out = <<>>
    /\ done = FALSE
    /\ WriterIdle
    /\ CoreIdle
    /\ SearchIdle

\* the effect of a call that left the buffer as sb and returned slice
BufferReturns(op, amt, sb, slice, flushed, moved) ==
    /\ reader' = Driven(sb, flushed, moved)
    /\ out' = <<Called(op, amt, slice, reader.buffer.inner.inner.consumed)>>
    /\ UNCHANGED <<input, cap, done, writer>>
    /\ UNCHANGED core_vars
    /\ UNCHANGED search_vars

\* the effect of a flush that returned fl
BufferFlushReturns(amt, fl) ==
    BufferReturns("flush", amt, fl.sb, fl.slice, TRUE, reader.moved)

\* the effect of a fill_buf that returned f
BufferFillReturns(f) ==
    BufferReturns("fill_buf", 0, f.sb, f.window, reader.flushed, reader.moved)

\* the BufReader's buffer
Buffered == BufReaderBuffer(reader.buffer.inner.inner)

\* a deferred consume is pending
Deferred == reader.buffer.next_consume # None

ScratchBufferFillBuf ==
    /\ reader.kind = "ScratchBuffer"
    /\ BufferFillReturns(FillBuf(reader.buffer))

\* consume of an amount the buffer holds
ScratchBufferConsume ==
    /\ reader.kind = "ScratchBuffer"
    /\ \E amt \in 1..Len(Buffered) :
            BufferReturns("consume", amt, Consume(reader.buffer, amt), <<>>,
                          reader.flushed, reader.moved \/ Deferred)

ScratchBufferSave ==
    /\ reader.kind = "ScratchBuffer"
    /\ BufferReturns("save", 0, Save(reader.buffer), <<>>, reader.flushed,
                     reader.moved \/ (Deferred /\ Buffered # <<>>))

\* flush of an amount the buffer holds, a reset having followed the flush
\* before, if any
ScratchBufferFlush ==
    /\ reader.kind = "ScratchBuffer"
    /\ ~reader.flushed
    /\ \E amt \in 0..Len(Buffered) : BufferFlushReturns(amt, Flush(reader.buffer, amt))

ScratchBufferReset ==
    /\ reader.kind = "ScratchBuffer"
    /\ BufferReturns("reset", 0, Reset(reader.buffer), <<>>, FALSE, reader.moved)

NextBuffer ==
    \/ ScratchBufferFillBuf
    \/ ScratchBufferConsume
    \/ ScratchBufferSave
    \/ ScratchBufferFlush
    \/ ScratchBufferReset

SpecBuffer == InitBuffer /\ [][NextBuffer]_vars

\* ------------------------------------------------------------------------
\* A Seeker over a stream
\* ------------------------------------------------------------------------
MaxPieces == 10
MaxCount == 3

\* the streams: rows of one letter, with quotes put between some of them
Pieces == {<<Letter, LF>>, <<Quote>>}

RECURSIVE Joined(_)
Joined(pieces) ==
    IF pieces = <<>> THEN <<>> ELSE Head(pieces) \o Joined(Tail(pieces))

\* no quoted field or one
QuoteCounts == {0, 2}

SeekerStreams ==
    {Joined(pieces) : pieces \in
        {q \in SeqsUpTo(Pieces, MaxPieces) :
            Cardinality({k \in DOMAIN q : q[k] = <<Quote>>}) \in QuoteCounts}}

SampleSizes == {1, 2}
LookaheadFactors == {3}
SeekerCapacities == {1, 32}

\* the Seeker under test, the last method called on it and its argument
Sought(seeker, called, arg) ==
    [kind |-> "Seeker", seeker |-> seeker, called |-> called, arg |-> arg]

\* the state once SeekerBuilder::from_reader returned built
SeekerStarted(bytes, capacity, built) ==
    /\ built.tag = "Some"
    /\ input = bytes
    /\ cap = capacity
    /\ reader = Sought(built.seeker, "from_reader", 0)

\* SeekerBuilder::from_reader: there is a Seeker when a sample could be taken
InitSeeker ==
    /\ \E bytes \in SeekerStreams, capacity \in SeekerCapacities,
          has_headers \in BOOLEAN, sample_size \in SampleSizes,
          lookahead_factor \in LookaheadFactors :
          SeekerStarted(bytes, capacity,
                        SeekerFromReader(
                            SeekerBuilder(capacity, has_headers, sample_size,
                                          lookahead_factor), bytes))
    /\ out = <<>>
    /\ done = FALSE
    /\ WriterIdle
    /\ CoreIdle
    /\ SearchIdle

SeekerReturns(called, arg, r) ==
    /\ reader' = Sought(r.self, called, arg)
    /\ out' = <<[r EXCEPT !.self = 0]>>
    /\ UNCHANGED <<input, cap, done, writer>>
    /\ UNCHANGED core_vars
    /\ UNCHANGED search_vars

\* Seeker::find_record_after at any position up to the end of the stream. One
\* call is followed per Seeker: a call leaves nothing behind but the position
\* of the stream, which the next call sets anew
SeekerFindRecordAfter ==
    /\ reader.kind = "Seeker"
    /\ out = <<>>
    /\ \E from_pos \in 0..Len(input), rounding \in BOOLEAN :
          SeekerReturns("find_record_after", from_pos,
                        find_record_after(reader.seeker, from_pos, rounding))

\* Seeker::segments
SeekerSegments ==
    /\ reader.kind = "Seeker"
    /\ out = <<>>
    /\ \E count \in 0..MaxCount, rounding \in BOOLEAN :
          SeekerReturns("segments", count, segments(reader.seeker, count, rounding))

NextSeeker == SeekerFindRecordAfter \/ SeekerSegments

SpecSeeker == InitSeeker /\ [][NextSeeker]_vars

\* ------------------------------------------------------------------------
\* The first and the last record of a Seeker
\* ------------------------------------------------------------------------
\* a Seeker with the default sample and lookahead over a short stream of any
\* bytes
DefaultSampleSize == 128
DefaultLookaheadFactor == 32

InitEnds ==
    /\ \E bytes \in RecordInputs, capacity \in Capacities, has_headers \in BOOLEAN :
          SeekerStarted(bytes, capacity,
                        SeekerFromReader(
                            SeekerBuilder(capacity, has_headers, DefaultSampleSize,
                                          DefaultLookaheadFactor), bytes))
    /\ out = <<>>
    /\ done = FALSE
    /\ WriterIdle
    /\ CoreIdle
    /\ SearchIdle

SeekerFirstByteRecord ==
    /\ reader.kind = "Seeker"
    /\ out = <<>>
    /\ SeekerReturns("first_byte_record", 0, first_byte_record(reader.seeker))

SeekerLastByteRecord ==
    /\ reader.kind = "Seeker"
    /\ out = <<>>
    /\ SeekerReturns("last_byte_record", 0, last_byte_record(reader.seeker))

NextEnds == SeekerFirstByteRecord \/ SeekerLastByteRecord

SpecEnds == InitEnds /\ [][NextEnds]_vars

\* ------------------------------------------------------------------------
\* A ReverseReader read with buffers of any length
\* ------------------------------------------------------------------------
\* longest buffer handed to a read
MaxBuf == 3

\* the ReverseReader under test, the part of the stream it was made for and
\* the bytes its reads returned so far, in call order
Reversing(rr, filesize, returned) ==
    [kind |-> "ReverseReader", rr |-> rr, filesize |-> filesize,
     returned |-> returned]

\* ReverseReader::new(input, filesize, offset) for offset <= filesize <= the
\* length of the stream
InitReverse ==
    /\ \E n \in 0..MaxStream : \E filesize \in 0..n : \E offset \in 0..filesize :
          /\ input = Stream(n)
          /\ reader = Reversing(ReverseReaderNew(input, filesize, offset),
                                filesize, <<>>)
    /\ cap = 0
    /\ out = <<>>
    /\ done = FALSE
    /\ WriterIdle
    /\ CoreIdle
    /\ SearchIdle

\* the effect of a read into a buffer of buff_size bytes that returned r
ReverseReturns(buff_size, r) ==
    /\ reader' = Reversing(r.self, reader.filesize, reader.returned \o r.bytes)
    /\ out' = <<[buff_size |-> buff_size, bytes |-> r.bytes]>>
    /\ UNCHANGED <<input, cap, done, writer>>
    /\ UNCHANGED core_vars
    /\ UNCHANGED search_vars

\* ReverseReader::read into a buffer of any length >= 1
ReverseRead ==
    /\ reader.kind = "ReverseReader"
    /\ \E buff_size \in 1..MaxBuf :
          ReverseReturns(buff_size, ReverseReaderRead(reader.rr, buff_size))

NextReverse == ReverseRead

SpecReverse == InitReverse /\ [][NextReverse]_vars

\* ------------------------------------------------------------------------
\* A Splitter asked for its records and their positions
\* ------------------------------------------------------------------------
InitPositions ==
    /\ input \in FirstReadInputs
    /\ cap \in Capacities
    /\ \E h \in BOOLEAN : reader = SplitterFromReader(input, cap, Delim, Quote, h)
    /\ out = <<>>
    /\ done = FALSE
    /\ WriterIdle
    /\ CoreIdle
    /\ SearchIdle

\* the effect of a split_record_with_position call that returned r
SplitWithPositionReturns(r) ==
    /\ reader' = r.self
    /\ out' = IF r.some THEN Append(out, [pos |-> r.pos, slice |-> r.slice]) ELSE out
    /\ done' = ~r.some

SplitRecordWithPosition ==
    /\ reader.kind = "Splitter"
    /\ ~done
    /\ SplitWithPositionReturns(split_record_with_position(reader))
    /\ UNCHANGED <<input, cap, writer>>
    /\ UNCHANGED core_vars
    /\ UNCHANGED search_vars

NextPositions == SplitRecordWithPosition

SpecPositions == InitPositions /\ [][NextPositions]_vars

\* ------------------------------------------------------------------------
\* A TotalReader asked for its records, their slices or their count
\* ------------------------------------------------------------------------
\* the reader is asked for one thing, call after call
InitTotal ==
    /\ input \in FirstReadInputs
    /\ cap = 0
    /\ \E h \in BOOLEAN : reader = TotalReaderFromBytes(input, Delim, Quote, h)
    /\ out = <<>>
    /\ done = FALSE
    /\ WriterIdle
    /\ CoreIdle
    /\ SearchIdle

\* the method the calls made so far were for, if any
Asked(method) == IF out = <<>> THEN TRUE ELSE out[1].method = method

\* the effect of a call of the method that left the reader as self and
\* returned item; ended tells that no call of the method follows
TotalReturns(method, self, item, ended) ==
    /\ reader' = self
    /\ out' = Append(out, [method |-> method, item |-> item])
    /\ done' = ended
    /\ UNCHANGED <<input, cap, writer>>
    /\ UNCHANGED core_vars
    /\ UNCHANGED search_vars

TotalRecordReturns(r) ==
    TotalReturns("read_byte_record", r.self,
                 IF r.ret THEN <<Fields(r.record)>> ELSE <<>>, ~r.ret)

TotalSliceReturns(r) ==
    TotalReturns("split_record", r.self, IF r.some THEN <<r.slice>> ELSE <<>>, ~r.some)

TotalCountReturns(r) == TotalReturns("count_records", r.self, <<r.count>>, TRUE)

TotalReadByteRecord ==
    /\ reader.kind = "TotalReader"
    /\ Asked("read_byte_record")
    /\ ~done
    /\ TotalRecordReturns(total_read_byte_record(reader))

TotalSplitRecord ==
    /\ reader.kind = "TotalReader"
    /\ Asked("split_record")
    /\ ~done
    /\ TotalSliceReturns(total_split_record(reader))

TotalCountRecords ==
    /\ reader.kind = "TotalReader"
    /\ out = <<>>
    /\ TotalCountReturns(total_count_records(reader))

NextTotal == TotalReadByteRecord \/ TotalSplitRecord \/ TotalCountRecords

SpecTotal == InitTotal /\ [][NextTotal]_vars

\* ------------------------------------------------------------------------
\* The fields of a record of a ZeroCopyReader
\* ------------------------------------------------------------------------
\* the first record a ZeroCopyReader returned, borrowed from it
BorrowedRecord(r) ==
    /\ r.tag = "Some"
    /\ reader = [kind |-> "ZeroCopyByteRecord", record |-> r.record]

InitFields ==
    /\ input \in RecordInputs
    /\ cap \in Capacities
    /\ BorrowedRecord(zero_copy_read_byte_record(
            ZeroCopyReaderFromReader(input, cap, Delim, Quote, TRUE, FALSE)))
    /\ out = <<>>
    /\ done = FALSE
    /\ WriterIdle
    /\ CoreIdle
    /\ SearchIdle

\* what a call on the record returned
Accessed(op, index, bytes, owned, fields) ==
    [op |-> op, index |-> index, bytes |-> bytes, owned |-> owned, fields |-> fields]

\* the effect of a call on the record that returned a
RecordReturns(a) ==
    /\ out' = <<a>>
    /\ UNCHANGED <<input, cap, reader, done, writer>>
    /\ UNCHANGED core_vars
    /\ UNCHANGED search_vars

\* the effect of ZeroCopyByteRecord::unescape returning cow
RecordUnescapeReturns(index, cow) ==
    RecordReturns(Accessed("unescape", index, cow.bytes, cow.owned, <<>>))

ZeroCopyByteRecordGet ==
    /\ reader.kind = "ZeroCopyByteRecord"
    /\ out = <<>>
    /\ \E index \in 0..Len(reader.record.seps) :
            RecordReturns(Accessed("get", index, ZeroCopyGet(reader.record, index),
                                   FALSE, <<>>))

ZeroCopyByteRecordUnquote ==
    /\ reader.kind = "ZeroCopyByteRecord"
    /\ out = <<>>
    /\ \E index \in 0..Len(reader.record.seps) :
            RecordReturns(Accessed("unquote", index,
                                   ZeroCopyUnquote(reader.record, index), FALSE, <<>>))

ZeroCopyByteRecordUnescape ==
    /\ reader.kind = "ZeroCopyByteRecord"
    /\ out = <<>>
    /\ \E index \in 0..Len(reader.record.seps) :
            RecordUnescapeReturns(index, ZeroCopyUnescape(reader.record, index))

ZeroCopyByteRecordToByteRecord ==
    /\ reader.kind = "ZeroCopyByteRecord"
    /\ out = <<>>
    /\ RecordReturns(Accessed("to_byte_record", 0, <<>>, TRUE,
                              Fields(to_byte_record(reader.record))))

NextFields ==
    \/ ZeroCopyByteRecordGet
    \/ ZeroCopyByteRecordUnquote
    \/ ZeroCopyByteRecordUnescape
    \/ ZeroCopyByteRecordToByteRecord

SpecFields == InitFields /\ [][NextFields]_vars

\* ------------------------------------------------------------------------
\* The records of a Reader written by a Writer
\* ------------------------------------------------------------------------
\* the owned records read_byte_record yields until the end of the stream
RECURSIVE ReadAll(_)
ReadAll(self) ==
    LET r == read_byte_record(self)
    IN  IF r.ret THEN <<r.record>> \o ReadAll(r.self) ELSE <<>>

InitRoundTrip ==
    /\ input \in RecordInputs
    /\ cap \in Capacities
    /\ reader = BufferedReaderWithCapacity(input, cap, Delim, Quote)
    /\ out = <<>>
    /\ done = FALSE
    /\ \E f \in BOOLEAN : writer = WriterFromWriter(Delim, Quote, f)
    /\ CoreIdle
    /\ SearchIdle

\* the effect of writing the next of the records read
RoundTripReturns(records, r) ==
    /\ writer' = r.self
    /\ out' = Append(out, Wrote(r, Fields(records[Len(out) + 1]), TRUE))
    /\ done' = (r.ok /\ Len(out) + 1 = Len(records))

\* write_byte_record of the next of the records read, while no call failed
WriteNextOf(records) ==
    /\ Len(out) < Len(records)
    /\ \A i \in 1..Len(out) : out[i].ok
    /\ RoundTripReturns(records, write_byte_record(writer, records[Len(out) + 1]))

WriterWriteByteRecord ==
    /\ writer.kind = "Writer"
    /\ reader.kind = "Reader"
    /\ WriteNextOf(ReadAll(reader))
    /\ UNCHANGED <<input, cap, reader>>
    /\ UNCHANGED core_vars
    /\ UNCHANGED search_vars

NextRoundTrip == WriterWriteByteRecord

SpecRoundTrip == InitRoundTrip /\ [][NextRoundTrip]_vars

\* ------------------------------------------------------------------------
\* A record of a ZeroCopyReader written by a Writer
\* ------------------------------------------------------------------------
\* the delimiters and quotes of the reader the record comes from: those of
\* the Writer, a semicolon, an apostrophe
ReaderDelimiters == {Delim, 59}
ReaderQuotes == {Quote, 39}

\* the capacities of that reader
BorrowCapacities == {1, 32}

InitZeroCopyWrite ==
    /\ input \in RecordInputs
    /\ cap \in BorrowCapacities
    /\ \E d \in ReaderDelimiters, q \in ReaderQuotes :
            BorrowedRecord(zero_copy_read_byte_record(
                ZeroCopyReaderFromReader(input, cap, d, q, TRUE, FALSE)))
    /\ out = <<>>
    /\ done = FALSE
    /\ \E f \in BOOLEAN : writer = WriterFromWriter(Delim, Quote, f)
    /\ CoreIdle
    /\ SearchIdle

\* the effect of write_zero_copy_byte_record returning r
ZeroCopyWriteReturns(r) ==
    /\ writer' = r.self
    /\ out' = <<[ok |-> r.ok, error |-> r.error]>>
    /\ UNCHANGED <<input, cap, reader, done>>
    /\ UNCHANGED core_vars
    /\ UNCHANGED search_vars

WriterWriteZeroCopyByteRecord ==
    /\ reader.kind = "ZeroCopyByteRecord"
    /\ writer.kind = "Writer"
    /\ out = <<>>
    /\ ZeroCopyWriteReturns(write_zero_copy_byte_record(writer, reader.record))

NextZeroCopyWrite == WriterWriteZeroCopyByteRecord

SpecZeroCopyWrite == InitZeroCopyWrite /\ [][NextZeroCopyWrite]_vars

\* ------------------------------------------------------------------------
\* A CoreReader fed arbitrary chunks
\* ------------------------------------------------------------------------
Routines == {"split_record", "split_record_and_find_separators", "read_record"}

Chunks == SeqsUpTo(Alphabet, MaxChunk)

InitCore ==
    /\ routine \in Routines
    /\ core = CoreReaderNew(Delim, Quote)
    /\ core_seps = <<>>
    /\ core_rb = wrap(EmptyRecord)
    /\ core_last = [input |-> <<>>, result |-> "none", pos |-> 0]
    /\ fed = 0
    /\ StreamIdle
    /\ SearchIdle

\* the caller starts each record with cleared separators and a cleared record
FreshSeps == IF core_last.result = "Record" THEN <<>> ELSE core_seps

FreshBuilder == IF core_last.result = "Record" THEN wrap(EmptyRecord) ELSE core_rb

Fed(result, pos) ==
    IF result = "Record" THEN 0
    ELSE IF result = "InputEmpty" THEN fed + pos ELSE fed

CallSplitRecord(chunk) ==
    /\ routine = "split_record"
    /\ fed + Len(chunk) <= MaxFed
    /\ LET r == split_record(core, chunk)
       IN  /\ core' = r.self
           /\ core_last' = [input |-> chunk, result |-> r.result, pos |-> r.pos]
           /\ fed' = Fed(r.result, r.pos)
    /\ UNCHANGED <<routine, core_seps, core_rb>>
    /\ UNCHANGED stream_vars
    /\ UNCHANGED search_vars

CallSplitRecordAndFindSeparators(chunk) ==
    /\ routine = "split_record_and_find_separators"
    /\ fed + Len(chunk) <= MaxFed
    /\ LET r == split_record_and_find_separators(core, chunk, fed, FreshSeps)
       IN  /\ core' = r.self
           /\ core_seps' = r.seps
           /\ core_last' = [input |-> chunk, result |-> r.result, pos |-> r.pos]
           /\ fed' = Fed(r.result, r.pos)
    /\ UNCHANGED <<routine, core_rb>>
    /\ UNCHANGED stream_vars
    /\ UNCHANGED search_vars

CallReadRecord(chunk) ==
    /\ routine = "read_record"
    /\ fed + Len(chunk) <= MaxFed
    /\ LET r == read_record(core, chunk, FreshBuilder)
       IN  /\ core' = r.self
           /\ core_rb' = r.rb
           /\ core_last' = [input |-> chunk, result |-> r.result, pos |-> r.pos]
           /\ fed' = Fed(r.result, r.pos)
    /\ UNCHANGED <<routine, core_seps>>
    /\ UNCHANGED stream_vars
    /\ UNCHANGED search_vars

NextCore ==
    \/ \E chunk \in Chunks : CallSplitRecord(chunk)
    \/ \E chunk \in Chunks : CallSplitRecordAndFindSeparators(chunk)
    \/ \E chunk \in Chunks : CallReadRecord(chunk)

SpecCore == InitCore /\ [][NextCore]_vars

\* ------------------------------------------------------------------------
\* Reference semantics used by the properties
\* ------------------------------------------------------------------------
\* A byte-at-a-time CSV parser for delimiter Delim and quote Quote.  It
\* reads one byte per step and keeps the field and the record in progress.
\* Modes: "rec" before a record, "fld" at the start of a field of a record
\* in progress, "unq" inside an unquoted field, "q" inside a quoted field,
\* "qq" right after a quote met inside a quoted field.  The input is morally
\* valid when the parser never meets a quote inside an unquoted field, a
\* byte other than a delimiter or a terminator after a closing quote, a CR
\* outside quotes that is not followed by LF, or an unclosed quoted field.
RECURSIVE RefParse(_, _, _, _, _, _)
RefParse(bytes, i, mode, cur, rec, recs) ==
    LET Invalid == [valid |-> FALSE, records |-> recs]
        byte == bytes[i]
        crlf == byte = CR /\ i < Len(bytes) /\ bytes[i + 1] = LF
    IN
    IF i > Len(bytes)
    THEN CASE mode = "rec" -> [valid |-> TRUE, records |-> recs]
           [] mode = "q" -> Invalid
           [] OTHER -> [valid |-> TRUE, records |-> Append(recs, Append(rec, cur))]
    ELSE CASE mode = "q" ->
                IF byte = Quote THEN RefParse(bytes, i + 1, "qq", cur, rec, recs)
                ELSE RefParse(bytes, i + 1, "q", Append(cur, byte), rec, recs)
           [] mode = "qq" /\ byte = Quote ->
                RefParse(bytes, i + 1, "q", Append(cur, Quote), rec, recs)
           [] mode = "rec" /\ byte = LF ->
                RefParse(bytes, i + 1, "rec", cur, rec, recs)
           [] mode # "q" /\ crlf ->
                RefParse(bytes, i + 1, mode, cur, rec, recs)
           [] mode \in {"fld", "unq", "qq"} /\ byte = LF ->
                RefParse(bytes, i + 1, "rec", <<>>, <<>>, Append(recs, Append(rec, cur)))
           [] mode \in {"rec", "fld", "unq", "qq"} /\ byte = Delim ->
                RefParse(bytes, i + 1, "fld", <<>>, Append(rec, cur), recs)
           [] mode \in {"rec", "fld"} /\ byte = Quote ->
                RefParse(bytes, i + 1, "q", cur, rec, recs)
           [] mode \in {"rec", "fld", "unq"} /\ byte \notin {Quote, Delim, LF, CR} ->
                RefParse(bytes, i + 1, "unq", Append(cur, byte), rec, recs)
           [] OTHER -> Invalid

Reference(bytes) == RefParse(bytes, 1, "rec", <<>>, <<>>, <<>>)

MorallyValid(bytes) == Reference(bytes).valid

\* the window of the reader holds the whole stream at once
SingleWindow == Len(input) <= cap

\* some field of some of the records holds the byte
Holds(records, byte) ==
    \E i \in 1..Len(records) : \E j \in 1..Len(records[i]) :
        \E k \in 1..Len(records[i][j]) : records[i][j][k] = byte

\* ------------------------------------------------------------------------
\* Properties of the copying reader
\* ------------------------------------------------------------------------
\* C1: for every buffer capacity, the records read through read_byte_record
\* are, field for field and byte for byte, the records read when one window
\* holds the whole input; stated on the morally valid inputs, which are among
\* the inputs the claim is about.
C1_SameRecordsAsSingleWindow ==
    (reader.kind = "Reader" /\ done /\ MorallyValid(input)) =>
        out = byte_records(BufferedReaderWithCapacity(input, Len(input) + 1, Delim, Quote))

C3_NoCrInLastField ==
    (/\ reader.kind = "Reader" /\ done
     /\ MorallyValid(input)
     /\ ~Holds(Reference(input).records, CR)) =>
        \A i \in 1..Len(out) :
            LET last == out[i][Len(out[i])]
            IN  \A k \in 1..Len(last) : last[k] # CR

\* ------------------------------------------------------------------------
\* Properties of the bare CoreReader
\* ------------------------------------------------------------------------
\* C4: from every state a CoreReader reaches, whatever the entry point that
\* drove it there, the three entry points return the same (result, bytes
\* consumed) on every next chunk and leave the same (parse state,
\* record_was_read); so three fresh readers fed the same chunks stay in step.
C4_SameProgress ==
    routine \in Routines =>
        \A chunk \in Chunks :
            LET a == split_record(core, chunk)
                b == split_record_and_find_separators(core, chunk, fed, FreshSeps)
                c == read_record(core, chunk, FreshBuilder)
            IN  /\ <<a.result, a.pos>> = <<b.result, b.pos>>
                /\ <<a.result, a.pos>> = <<c.result, c.pos>>
                /\ a.self = b.self
                /\ a.self = c.self

\* C4 witness: read_record has returned a Record that it reached through a
\* quoted field, leaving a record of two fields
C4_Witness ==
    /\ routine = "read_record"
    /\ core_last.result = "Record"
    /\ core_last.input = <<Quote, LF>>
    /\ Len(core_rb.record.bounds) = 2

\* C5: a call with empty input returns Record with 0 bytes consumed when a
\* record is in progress and not yet reported, and End otherwise; either way
\* record_was_read is true afterwards, so the next empty call returns End.
\* record_was_read is true at initialisation and after every Record.
C5_EndOfInput ==
    /\ core.record_was_read
    /\ [][/\ core_last'.input = <<>> =>
               /\ core_last'.pos = 0
               /\ core_last'.result = (IF core.record_was_read THEN "End" ELSE "Record")
               /\ core'.record_was_read
               /\ split_record(core', <<>>).result = "End"
          /\ core_last'.result = "Record" => core'.record_was_read]_vars

\* C5 witness: the flush of a last record without LF has just happened
C5_Witness ==
    /\ routine \in Routines
    /\ core_last.input = <<>>
    /\ core_last.result = "Record"
    /\ core_last.pos = 0

\* ------------------------------------------------------------------------
\* Properties of the Searcher
\* ------------------------------------------------------------------------
\* the offsets of the needles in a haystack, in increasing order
RECURSIVE Matches(_, _, _)
Matches(s, h, from) ==
    IF from >= Len(h) THEN <<>>
    ELSE (IF h[from + 1] \in {s.n1, s.n2, s.n3} THEN <<from>> ELSE <<>>)
         \o Matches(s, h, from + 1)

\* C7: the offsets next() has returned are, in order, the first offsets of
\* the bytes of the haystack that are among the three needles; when next()
\* has returned None they are all of them, and next() returns None again.
C7_ExactIncreasingFused ==
    LET all == Matches(indices.searcher, haystack, 0)
    IN  /\ Len(found) <= Len(all)
        /\ found = SubSeq(all, 1, Len(found))
        /\ exhausted =>
                /\ found = all
                /\ SSE2IndicesNext(indices.searcher, haystack, indices.it).item = None

\* C7 witness: a haystack of one vector and two more bytes; its matches lie
\* in the vector (the second served from the cached mask) and in the tail
C7_Witness ==
    /\ exhausted
    /\ Len(haystack) = SSE2_STEP + 2
    /\ found = <<2, 15, 17>>

\* ------------------------------------------------------------------------
\* Properties of the Splitter and of the ZeroCopyReader
\* ------------------------------------------------------------------------
\* the lines of a stream: the runs of bytes between LF bytes
RECURSIVE Lines(_)
Lines(bytes) ==
    LET offset == memchr(LF, bytes)
    IN  IF offset = None THEN <<bytes>>
        ELSE <<Slice(bytes, 0, offset)>> \o Lines(Slice(bytes, offset + 1, Len(bytes)))

\* the number of lines that hold at least one byte other than CR
NonBlankLines(bytes) ==
    LET lines == Lines(bytes)
    IN  Cardinality({i \in 1..Len(lines) : \E k \in 1..Len(lines[i]) : lines[i][k] # CR})

\* the first record is not counted when it is the header
WithoutHeader(n, has_headers) == IF has_headers /\ n > 0 THEN n - 1 ELSE n

\* count_records was called on the fresh Splitter
CountedFresh == reader.kind = "Splitter" /\ Len(out) = 1 /\ Counted

\* C6: empty lines never produce records. Whenever a record is not in
\* progress, a chunk that starts with LF or CR is absorbed one byte per call,
\* with no Record and no change of the CoreReader; and for every capacity the
\* count of a stream without quotes is the number of its lines that hold a
\* byte other than CR (less the header when the first record is the header).
C6_EmptyLinesYieldNoRecord ==
    /\ (reader.kind = "Splitter" /\ reader.inner.record_was_read) =>
            \A chunk \in Chunks :
                (chunk # <<>> /\ chunk[1] \in {LF, CR}) =>
                    LET r == split_record(reader.inner, chunk)
                    IN  /\ r.result = (IF chunk[1] = LF THEN "Lf" ELSE "Cr")
                        /\ r.pos = 1
                        /\ r.self = reader.inner
    /\ (CountedFresh /\ ~Holds(<<<<input>>>>, Quote)) =>
            out[1].count = WithoutHeader(NonBlankLines(input), reader.has_headers)

\* C6 witness: blank lines (LF, then CR LF) around the one record of the
\* stream, read through a window of one byte
C6_Witness ==
    /\ CountedFresh
    /\ input = <<LF, Letter, CR, LF>>
    /\ cap = 1
    /\ ~reader.has_headers
    /\ out[1].count = 1

\* every record slice Splitter::split_record returns until None
RECURSIVE SplitAll(_)
SplitAll(self) ==
    LET r == SplitterSplit(self)
    IN  IF r.some
        THEN <<Returned("Some", r.slice, <<>>, NoError, 0)>> \o SplitAll(r.self)
        ELSE <<>>

\* every record ZeroCopyReader::read_byte_record returns until None or until
\* the first call that fails, that failure included
RECURSIVE ZeroCopyAll(_)
ZeroCopyAll(self) ==
    LET r == zero_copy_read_byte_record(self)
    IN  CASE r.tag = "Some" ->
                <<Returned("Some", r.record.slice, r.record.seps, NoError, 0)>>
                    \o ZeroCopyAll(r.self)
          [] r.tag = "Err" -> <<Returned("Err", <<>>, <<>>, r.error, 0)>>
          [] OTHER -> <<>>

\* the results up to the first failure, that failure included
RECURSIVE UpToError(_)
UpToError(results) ==
    IF results = <<>> THEN <<>>
    ELSE IF results[1].tag = "Err" THEN <<results[1]>>
         ELSE <<results[1]>> \o UpToError(Tail(results))

Failed == \E i \in 1..Len(out) : out[i].tag = "Err"

Converted(results) ==
    [i \in 1..Len(results) |->
        Fields(to_byte_record([slice |-> results[i].slice, seps |-> results[i].seps,
                               quote |-> Quote]))]

\* the records of the Reader: the first one is withheld when it is the header
ReaderRecords(bytes, capacity, has_headers) ==
    LET records == byte_records(BufferedReaderWithCapacity(bytes, capacity, Delim, Quote))
    IN  IF has_headers /\ records # <<>> THEN Tail(records) ELSE records

\* C9: on the morally valid inputs already, a ZeroCopyReader that read the
\* stream to its end without failure, each record converted with
\* to_byte_record, yields the records of the Reader with the same capacity
\* and header mode.
C9_ConvertedMatchesReader ==
    (reader.kind = "ZeroCopyReader" /\ done /\ ~Failed /\ MorallyValid(input)) =>
        Converted(out) = ReaderRecords(input, cap, reader.has_headers)

\* BufferedReader::count_records
RECURSIVE BufferedCountRecords(_, _)
BufferedCountRecords(self, count) ==
    LET buffer == BufReaderFill(self.buffer)
        r == split_record(self.inner, BufReaderBuffer(buffer))
        next == [self EXCEPT !.buffer = BufReaderConsume(buffer, r.pos),
                             !.inner = r.self]
    IN  IF r.result = "End" THEN count
        ELSE IF r.result = "Record" THEN BufferedCountRecords(next, count + 1)
             ELSE BufferedCountRecords(next, count)

\* C10: Splitter::count_records returns the number of records the Reader
\* yields for the same input and capacity (counted or read one by one, the
\* header left out when the first record is the header), which is also the
\* number of Some results of repeated Splitter::split_record calls.
C10_CountMatches ==
    CountedFresh =>
        LET fresh == BufferedReaderWithCapacity(input, cap, Delim, Quote)
        IN  /\ out[1].count =
                    WithoutHeader(BufferedCountRecords(fresh, 0), reader.has_headers)
            /\ out[1].count = Len(ReaderRecords(input, cap, reader.has_headers))
            /\ out[1].count =
                    Len(SplitAll(SplitterFromReader(input, cap, Delim, Quote,
                                                    reader.has_headers)))

\* C10 witness: two records, the first quoted with a delimiter inside,
\* counted through a window of two bytes
C10_Witness ==
    /\ CountedFresh
    /\ input = <<Quote, Delim, Quote, LF>>
    /\ cap = 2
    /\ ~reader.has_headers
    /\ out[1].count = 1

\* ------------------------------------------------------------------------
\* Properties of the TotalReader and of the first read
\* ------------------------------------------------------------------------
\* the fields of the records a TotalReader returned
TotalFields(results) == [i \in 1..Len(results) |-> results[i].fields]

\* C11: over the whole slice, TotalReader::read_byte_record yields the
\* records the streaming Reader yields over a stream of the same bytes with
\* the same header mode, whatever the capacity of the Reader (stated on the
\* morally valid inputs that do not start with a byte order mark).
C11_TotalMatchesReader ==
    (reader.kind = "TotalReader" /\ done /\ MorallyValid(input) /\ trim_bom(input) = 0) =>
        \A c \in Capacities :
            TotalFields(out) = ReaderRecords(input, c, reader.has_headers)

\* the headers a byte_headers call returns in this state
HeadersOf ==
    IF reader.kind = "ZeroCopyReader" THEN Fields(reader.byte_headers)
    ELSE Fields(reader.headers)

\* the fields of the records the read calls returned
ReadsOf == IF reader.kind = "ZeroCopyReader" THEN Converted(out) ELSE TotalFields(out)

\* s is the beginning of t
Prefix(s, t) == Len(s) <= Len(t) /\ s = SubSeq(t, 1, Len(s))

\* C12: header mode of the ZeroCopyReader and of the TotalReader, on the
\* morally valid inputs without byte order mark and while no call failed.
\* Once the first read happened the headers are the first record of the
\* stream (the empty record when there is none); the read calls return the
\* records of the stream in order, without the first one when has_headers
\* is set and with it, once, when it is not, however many byte_headers
\* calls come in between.
C12_HeaderMode ==
    (MorallyValid(input) /\ trim_bom(input) = 0 /\ ~Failed) =>
        LET all == Reference(input).records
            expected == IF reader.has_headers /\ all # <<>> THEN Tail(all) ELSE all
        IN  /\ reader.has_read => HeadersOf = (IF all = <<>> THEN <<>> ELSE all[1])
            /\ Prefix(ReadsOf, expected)
            /\ done => ReadsOf = expected

\* ------------------------------------------------------------------------
\* Properties of the byte order mark
\* ------------------------------------------------------------------------
\* the stream without the byte order mark it starts with, if any
WithoutBom(bytes) == Slice(bytes, trim_bom(bytes), Len(bytes))

\* C14: once the first read happened, the headers are the first record of
\* the stream without its leading byte order mark (stated where what
\* follows the mark is morally valid): a leading EF BB BF is skipped for
\* every capacity, and nothing is skipped when the stream does not start
\* with these three bytes.
C14_BomSkipped ==
    (reader.has_read /\ MorallyValid(WithoutBom(input))) =>
        LET all == Reference(WithoutBom(input)).records
        IN  HeadersOf = (IF all = <<>> THEN <<>> ELSE all[1])

\* ------------------------------------------------------------------------
\* Properties of the field count check of the ZeroCopyReader
\* ------------------------------------------------------------------------
\* the number of fields of a record that was returned
FieldCountOf(result) == Len(result.seps) + 1

\* the number of fields of the first of the records, 0 when there is none
FirstCount(results) == IF results = <<>> THEN 0 ELSE FieldCountOf(results[1])

\* results are what the calls of a reader that checks the field count
\* returned, flexible what a flexible reader returns for the same stream,
\* expected the field count of the first record of the stream
FieldCountChecked(results, flexible, expected) ==
    /\ \A i \in 1..Len(results) :
            /\ results[i].tag = "Err" =>
                    /\ results[i].error.expected_len = expected
                    /\ results[i].error.len # expected
            /\ results[i].tag = "Some" => FieldCountOf(results[i]) = expected
    /\ \A i \in 1..Len(UpToError(results)) :
            /\ i <= Len(flexible)
            /\ IF FieldCountOf(flexible[i]) = expected
               THEN results[i] = flexible[i]
               ELSE /\ results[i].tag = "Err"
                    /\ results[i].error.len = FieldCountOf(flexible[i])
    /\ (done /\ results = UpToError(results) /\ ~Failed) => results = flexible

C15_RoundTrip ==
    (reader.kind = "Reader" /\ writer.kind = "Writer" /\ done) =>
        \A c \in Capacities :
            byte_records(BufferedReaderWithCapacity(writer.buffer, c, Delim, Quote))
                = byte_records(reader)

\* C15 witness: the record whose only field is one quote byte was read
\* from four quote bytes and written back as four quote bytes and LF
C15_Witness ==
    /\ reader.kind = "Reader"
    /\ done
    /\ cap = 1
    /\ input = <<Quote, Quote, Quote, Quote>>
    /\ out[1].record = <<<<Quote>>>>
    /\ writer.buffer = <<Quote, Quote, Quote, Quote, LF>>

\* the cell with every quote byte doubled
RECURSIVE DoubledQuotes(_)
DoubledQuotes(cell) ==
    IF cell = <<>> THEN <<>>
    ELSE (IF Head(cell) = Quote THEN <<Quote, Quote>> ELSE <<Head(cell)>>)
            \o DoubledQuotes(Tail(cell))

\* the encoding of a field: raw without marked byte, else quoted and doubled
Encoded(cell) ==
    IF \E i \in 1..Len(cell) : cell[i] \in Marks
    THEN <<Quote>> \o DoubledQuotes(cell) \o <<Quote>>
    ELSE cell

\* C16: write_record of a record of one cell succeeds and emits the cell
\* raw when it holds none of CR, LF, the delimiter and the quote, and else
\* a quote, the cell with every quote doubled and a quote (then LF; the
\* empty cell alone in its record gets two quotes); the loop for short
\* cells and the loop for long cells both emit the cell with every quote
\* doubled, whatever the length of the cell.
C16_FieldEncoding ==
    (reader.kind = "cell" /\ out # <<>>) =>
        /\ out[1].ok
        /\ writer.buffer =
                (IF input = <<>> THEN <<Quote, Quote>> ELSE Encoded(input)) \o <<LF>>
        /\ WriteQuotedShort(input, Quote, 0) = DoubledQuotes(input)
        /\ WriteQuotedLong(input, Quote, 0) = DoubledQuotes(input)

\* C16 witness: a cell of two rounds of the unrolled scan and one more
\* byte, with a quote that opens the second round and a quote in the tail
C16_Witness ==
    /\ reader.kind = "cell"
    /\ out # <<>>
    /\ Len(input) = 2 * UNROLLED + 1
    /\ {i \in 1..Len(input) : input[i] = Quote} = {UNROLLED + 1, 2 * UNROLLED + 1}
    /\ Len(writer.buffer) = Len(input) + 5

\* the record is made of empty cells only
AllEmpty(record) == \A i \in 1..Len(record) : record[i] = <<>>

\* what the claim says is written for a record of n empty cells
EmptyRecordBytes(n) ==
    IF n = 0 THEN <<LF>>
    ELSE IF n = 1 THEN <<Quote, Quote, LF>>
         ELSE [i \in 1..n |-> IF i = n THEN LF ELSE Delim]

\* every call so far was a write_record call that succeeded
AllQuoted(results) == \A i \in 1..Len(results) : results[i].ok /\ results[i].quoting

\* C17: a successful write_record call given a record of empty cells adds
\* two quotes and LF to the output when the record has one cell, one
\* delimiter less than cells and LF when it has several, LF alone when it
\* has none; and after a record of one empty cell a Reader of any capacity
\* over the output yields one more record, made of one empty field.
C17_EmptyCells ==
    [][(/\ Len(out') = Len(out) + 1
        /\ out'[Len(out')].ok
        /\ out'[Len(out')].quoting
        /\ AllEmpty(out'[Len(out')].record)) =>
            /\ writer'.buffer =
                    writer.buffer \o EmptyRecordBytes(Len(out'[Len(out')].record))
            /\ (Len(out'[Len(out')].record) = 1 /\ AllQuoted(out)) =>
                    \A c \in Capacities :
                        byte_records(BufferedReaderWithCapacity(writer'.buffer, c,
                                                                Delim, Quote))
                            = Append(byte_records(BufferedReaderWithCapacity(
                                        writer.buffer, c, Delim, Quote)),
                                     <<<<>>>>)]_vars

\* C17 witness: a flexible Writer wrote a record of one empty cell, then a
\* record of three empty cells, then a record without cell
C17_Witness ==
    /\ writer.kind = "Writer"
    /\ writer.flexible
    /\ Len(out) = 3
    /\ AllQuoted(out)
    /\ out[1].record = <<<<>>>>
    /\ out[2].record = << <<>>, <<>>, <<>> >>
    /\ out[3].record = <<>>
    /\ writer.buffer = <<Quote, Quote, LF, Delim, Delim, LF, LF>>

\* C18: a flexible Writer never fails.  Another Writer records the field
\* count of the first record it is given, which cannot fail, and keeps it:
\* a later write_record or write_record_no_quoting call succeeds when its
\* record has that many fields and fails otherwise with UnequalLengths,
\* expected_len the recorded count, len the count of the record, pos None.
C18_FieldCount ==
    (writer.kind = "Writer" /\ reader.kind = "none") =>
        IF writer.flexible
        THEN /\ \A i \in 1..Len(out) : out[i].ok
             /\ writer.field_count = None
        ELSE /\ writer.field_count = (IF out = <<>> THEN None ELSE Len(out[1].record))
             /\ \A i \in 1..Len(out) :
                    /\ out[i].ok <=> Len(out[i].record) = Len(out[1].record)
                    /\ ~out[i].ok =>
                            out[i].error = [expected_len |-> Len(out[1].record),
                                            len |-> Len(out[i].record),
                                            pos |-> None]

\* C18 witness: a record of two fields was written, a record of one field
\* was refused, and a record of two fields was written after that
C18_Witness ==
    /\ writer.kind = "Writer"
    /\ ~writer.flexible
    /\ Len(out) = 3
    /\ Len(out[1].record) = 2 /\ out[1].ok
    /\ Len(out[2].record) = 1 /\ ~out[2].ok /\ ~out[2].quoting
    /\ out[2].error = [expected_len |-> 2, len |-> 1, pos |-> None]
    /\ Len(out[3].record) = 2 /\ out[3].ok
    /\ writer.field_count = 2

\* ------------------------------------------------------------------------
\* Properties of unescaping
\* ------------------------------------------------------------------------
\* C19 as stated: utils::unescape of the bytes the Writer emits for a cell
\* as a quoted field, with the same quote byte, is the cell.
C19_UnescapeWritten ==
    (reader.kind = "unescape" /\ out # <<>> /\ ~out[1].trimmed) =>
        out[1].cow.bytes = input

\* C19 amended: utils::unescape of the bytes the Writer emits for a cell as
\* a quoted field, once utils::unquoted has removed the enclosing pair of
\* quotes, is the cell; the result is owned exactly when the cell holds a
\* quote.
C19_UnescapeWrittenBody ==
    (reader.kind = "unescape" /\ out # <<>> /\ out[1].trimmed) =>
        /\ writer.buffer = <<Quote>> \o DoubledQuotes(input) \o <<Quote>>
        /\ out[1].cow.bytes = input
        /\ out[1].cow.owned <=> (\E i \in 1..Len(input) : input[i] = Quote)

\* C19 witness: a cell that starts with a quote and ends with two of them
\* was written quoted, trimmed and unescaped
C19_Witness ==
    /\ reader.kind = "unescape"
    /\ input = <<Quote, Letter, Quote, Quote>>
    /\ out # <<>>
    /\ out[1].trimmed
    /\ out[1].cow = [owned |-> TRUE, bytes |-> input]

\* the bytes of field index (0-based) of a record: from past the separator
\* before it up to the separator after it
RawField(zc, index) ==
    LET from == IF index = 0 THEN 1 ELSE zc.seps[index] + 2
        to == IF index = Len(zc.seps) THEN Len(zc.slice) ELSE zc.seps[index + 1]
    IN  SubSeq(zc.slice, from, to)

\* a cell without the pair of quotes that encloses it, if one does
WithoutEnclosingPair(cell) ==
    IF Len(cell) >= 2 /\ cell[1] = Quote /\ cell[Len(cell)] = Quote
    THEN SubSeq(cell, 2, Len(cell) - 1)
    ELSE cell

\* C20: for every field i of a zero-copy record, get(i) returns the raw
\* bytes of the field, unquote(i) returns them without their enclosing pair
\* of quotes if they have one, and unescape(i) returns the field completely
\* unescaped, which is field i of to_byte_record().
C20_FieldAccess ==
    (reader.kind = "ZeroCopyByteRecord" /\ out # <<>>) =>
        /\ out[1].op = "get" => out[1].bytes = RawField(reader.record, out[1].index)
        /\ out[1].op = "unquote" =>
                out[1].bytes = WithoutEnclosingPair(RawField(reader.record, out[1].index))
        /\ out[1].op = "unescape" =>
                out[1].bytes = Fields(to_byte_record(reader.record))[out[1].index + 1]

\* ------------------------------------------------------------------------
\* Properties of the records of a ZeroCopyReader
\* ------------------------------------------------------------------------
\* the number of quote bytes among the first n bytes of a slice
RECURSIVE QuotesBefore(_, _)
QuotesBefore(slice, n) ==
    IF n = 0 THEN 0
    ELSE QuotesBefore(slice, n - 1) + (IF slice[n] = Quote THEN 1 ELSE 0)

\* the record a ZeroCopyReader returned, as the call gave it
RecordOf(e) == [slice |-> e.slice, seps |-> e.seps, quote |-> Quote]

\* the separators of a record increase strictly and each is the offset, in
\* the slice, of a delimiter that an even number of quotes precedes
SeparatorsSound(zc) ==
    /\ \A k \in 1..Len(zc.seps) - 1 : zc.seps[k] < zc.seps[k + 1]
    /\ \A k \in 1..Len(zc.seps) :
            /\ 0 <= zc.seps[k] /\ zc.seps[k] < Len(zc.slice)
            /\ zc.slice[zc.seps[k] + 1] = Delim
            /\ QuotesBefore(zc.slice, zc.seps[k]) % 2 = 0

\* get over a record: the raw bytes of field i for i < len(), None from
\* len() on
GetSound(zc) ==
    /\ ZeroCopyLen(zc) = Len(zc.seps) + 1
    /\ ZeroCopyLen(zc) >= 1
    /\ \A i \in 0..ZeroCopyLen(zc) - 1 : get(zc, i) = RawField(zc, i)
    /\ \A i \in ZeroCopyLen(zc)..ZeroCopyLen(zc) + 1 : get(zc, i) = None

\* C21: for every record a ZeroCopyReader returned, from the window or from
\* the scratch: the separator offsets increase strictly, each is smaller
\* than the length of the record slice and is the offset of a delimiter
\* outside quotes; len() is the number of separators plus one; get(i) is
\* the bytes between separator i-1 (or the start) and separator i (or the
\* end of the slice) for i < len(), and None for i >= len(); the slice has
\* lost the LF or CR LF that ended the record.
C21_RecordLayout ==
    reader.kind = "ZeroCopyReader" =>
        \A n \in 1..Len(out) :
            out[n].tag = "Some" =>
                /\ SeparatorsSound(RecordOf(out[n]))
                /\ GetSound(RecordOf(out[n]))
                /\ MorallyValid(input) =>
                        \A i \in 1..Len(out[n].slice) : out[n].slice[i] # LF
                            \/ QuotesBefore(out[n].slice, i - 1) % 2 = 1

\* C21 witness: with a window of one byte, a record of two fields, the
\* first quoted with a delimiter inside, came out of the scratch
C21_Witness ==
    /\ reader.kind = "ZeroCopyReader"
    /\ cap = 1
    /\ out # <<>>
    /\ out[1].tag = "Some"
    /\ out[1].slice = <<Quote, Delim, Quote, Delim>>
    /\ out[1].seps = <<3>>


\* ------------------------------------------------------------------------
\* Properties of the ScratchBuffer
\* ------------------------------------------------------------------------
\* the call a step of a bare ScratchBuffer made
StepOf(op) == reader.kind = "ScratchBuffer" /\ out'[1].op = op

\* a flush with empty scratch returns the first amt bytes of the window,
\* consumes nothing and defers a consume of amt
FlushDefers ==
    (StepOf("flush") /\ reader.buffer.scratch = <<>>) =>
        /\ out'[1].slice = SubSeq(Buffered, 1, out'[1].amt)
        /\ reader'.buffer.inner = reader.buffer.inner
        /\ reader'.buffer.next_consume = out'[1].amt

\* a reset consumes the deferred amount from the BufReader, and nothing
\* when no consume is deferred; no consume is deferred after it
ResetConsumesOnce ==
    StepOf("reset") =>
        /\ reader'.buffer.next_consume = None
        /\ reader'.buffer.inner.inner.consumed =
                reader.buffer.inner.inner.consumed
                    + (IF Deferred THEN reader.buffer.next_consume ELSE 0)

\* position() after a flush is the offset in the stream just past the
\* bytes the buffer held when the flush returned them
FlushPosition ==
    StepOf("flush") => Position(reader'.buffer) = out'[1].offset + out'[1].amt

\* a reset leaves position() as it is
ResetKeepsPosition ==
    StepOf("reset") => Position(reader'.buffer) = Position(reader.buffer)

\* no call makes position() decrease
PositionMonotonic ==
    reader.kind = "ScratchBuffer" => Position(reader'.buffer) >= Position(reader.buffer)

\* C22 as stated: over every sequence of fill_buf, consume, save, flush and
\* reset in which a reset separates two flushes, a flush with empty scratch
\* returns the first n bytes of the window and consumes nothing, the next
\* reset consumes exactly n, once, position() after a flush is the stream
\* offset just past the returned bytes, a reset leaves position() as it is
\* and position() never decreases.
C22_ScratchProtocol ==
    [][/\ FlushDefers
       /\ ResetConsumesOnce
       /\ FlushPosition
       /\ ResetKeepsPosition
       /\ PositionMonotonic]_vars

\* C22 amended: the same, where the consumption by reset and position()
\* after a flush are stated for the sequences in which no consume and no
\* save has taken bytes between a flush of the window and the reset that
\* follows it.
C22_ScratchProtocolUnmoved ==
    [][/\ FlushDefers
       /\ ~reader'.moved => ResetConsumesOnce /\ FlushPosition
       /\ ResetKeepsPosition
       /\ PositionMonotonic]_vars

\* C22 witness: after a flush of two bytes of the window and its reset, a
\* save and a flush through the scratch that ends at offset 4
C22_Witness ==
    /\ reader.kind = "ScratchBuffer"
    /\ ~reader.moved
    /\ out # <<>>
    /\ out[1].op = "flush"
    /\ out[1].slice = <<3, 4>>
    /\ reader.buffer.scratch # <<>>
    /\ Position(reader.buffer) = 4


\* ------------------------------------------------------------------------
\* Properties of the owned record
\* ------------------------------------------------------------------------
\* every bound lies inside the data, the bounds are in order and do not
\* overlap, and the last one ends where the data ends
BoundsSound(record) ==
    /\ \A i \in 1..Len(record.bounds) :
            /\ 0 <= record.bounds[i][1]
            /\ record.bounds[i][1] <= record.bounds[i][2]
            /\ record.bounds[i][2] <= Len(record.data)
    /\ \A i \in 1..Len(record.bounds) - 1 :
            record.bounds[i][2] <= record.bounds[i + 1][1]
    /\ record.bounds # <<>>
    /\ record.bounds[Len(record.bounds)][2] = Len(record.data)

\* the fields pushed onto the records by the property
Pushed == {<<>>, <<Letter>>, <<Quote, LF>>}

\* C23: after every Record result of read_record, whatever the chunks fed,
\* every bound of the owned record has 0 <= start <= end <= data.len, the
\* bounds are ordered without overlap and the last bound ends at data.len;
\* push_field(b) then adds a field equal to b and leaves the fields before
\* it as they were.
C23_BoundsSound ==
    (routine = "read_record" /\ core_last.result = "Record") =>
        /\ BoundsSound(core_rb.record)
        /\ \A b \in Pushed :
                Fields(push_field(core_rb.record, b)) = Append(Fields(core_rb.record), b)

\* C23 witness: a record of an empty field and a quoted field was read
\* from two chunks and the end of the stream: the data keeps the delimiter
\* and the opening quote, which no field covers
C23_Witness ==
    /\ routine = "read_record"
    /\ core_last.result = "Record"
    /\ core_last.input = <<>>
    /\ core_rb.record.data = <<Delim, Quote, Letter>>
    /\ core_rb.record.bounds = <<<<0, 0>>, <<2, 3>>>>


\* ------------------------------------------------------------------------
\* Properties of read_record on unusual data
\* ------------------------------------------------------------------------
\* the bytes before offset n (1-based) are unquoted fields of the first
\* record: ordinary bytes and delimiters alone
PlainBefore(bytes, n) == \A i \in 1..n - 1 : bytes[i] \in {Letter, Delim}

\* the number of delimiters among the first n bytes
RECURSIVE DelimitersBefore(_, _)
DelimitersBefore(bytes, n) ==
    IF n = 0 THEN 0
    ELSE DelimitersBefore(bytes, n - 1) + (IF bytes[n] = Delim THEN 1 ELSE 0)

\* the field of the first record that starts at from holds ordinary bytes up
\* to a quote at q
QuoteInsideField(bytes, from, q) ==
    /\ from < q
    /\ bytes[q] = Quote
    /\ PlainBefore(bytes, from)
    /\ from = 1 \/ bytes[from - 1] = Delim
    /\ \A i \in from..q - 1 : bytes[i] = Letter

\* C29: when a quote follows one or more ordinary bytes of an unquoted
\* field, in the first or in a later field of the first record, the bytes
\* of the field before the quote are the beginning of that field of the
\* record read.
C29_QuoteKeepsField ==
    (reader.kind = "Reader" /\ out # <<>>) =>
        \A from \in 1..Len(input), q \in 1..Len(input) :
            QuoteInsideField(input, from, q) =>
                LET k == DelimitersBefore(input, from - 1) + 1
                IN  /\ k <= Len(out[1])
                    /\ Prefix(SubSeq(input, from, q - 1), out[1][k])

\* a line without the CR bytes it starts with
RECURSIVE WithoutLeadingCr(_)
WithoutLeadingCr(line) ==
    IF line # <<>> /\ Head(line) = CR THEN WithoutLeadingCr(Tail(line)) ELSE line

\* a line that LF ends, without the CR that comes right before that LF
WithoutCrOfCrLf(line, ended) ==
    IF ended /\ line # <<>> /\ line[Len(line)] = CR
    THEN SubSeq(line, 1, Len(line) - 1) ELSE line

\* the fields of a line without quotes: the runs of bytes between delimiters
RECURSIVE SplitOnDelimiter(_)
SplitOnDelimiter(line) ==
    LET offset == memchr(Delim, line)
    IN  IF offset = None THEN <<line>>
        ELSE <<Slice(line, 0, offset)>>
                \o SplitOnDelimiter(Slice(line, offset + 1, Len(line)))

\* the records of the lines from line n on, for a stream without quotes:
\* only LF ends a line (the last line has no LF); the CR bytes a line
\* starts with are dropped, a line with nothing else is no record; a CR
\* right before the LF of the line is part of the terminator; every other
\* CR stays in its field
RECURSIVE BareRecords(_, _)
BareRecords(lines, n) ==
    IF n > Len(lines) THEN <<>>
    ELSE LET line == WithoutLeadingCr(lines[n])
         IN  (IF line = <<>> THEN <<>>
              ELSE <<SplitOnDelimiter(WithoutCrOfCrLf(line, n < Len(lines)))>>)
                \o BareRecords(lines, n + 1)

\* no byte of the stream is a quote
Quoteless(bytes) == \A i \in 1..Len(bytes) : bytes[i] # Quote

\* C30: on a stream without quotes, a CR that LF does not follow right away
\* never ends a record: it stays in its field, unless the record starts
\* with it, in which case it is dropped; the records read are the lines
\* that LF or CR LF end, without their leading CR bytes.
C30_BareCr ==
    (reader.kind = "Reader" /\ done /\ Quoteless(input)) =>
        out = BareRecords(Lines(input), 1)

\* ------------------------------------------------------------------------
\* Properties of the Seeker
\* ------------------------------------------------------------------------
\* the step is a call of the method on a Seeker
SeekerCalled(method) ==
    /\ reader.kind = "Seeker"
    /\ reader'.kind = "Seeker"
    /\ reader'.called = method
    /\ out' # <<>>

\* the first record a Reader has over the bytes
FirstOfReader(bytes, capacity) ==
    Fields(read_byte_record(
               BufferedReaderWithCapacity(bytes, capacity, Delim, Quote)).record)

\* the call fails with OutOfBounds exactly for a position before the first
\* record or not before the end of the stream, and tells the three positions
OutOfBoundsExactly ==
    LET sample == reader.seeker.sample
        outside == \/ reader'.arg < sample.first_record_position
                   \/ reader'.arg >= sample.stream_len
    IN  /\ outside <=> out'[1].tag = "Err"
        /\ outside => out'[1].error = [kind |-> "OutOfBounds", pos |-> reader'.arg,
                                       start |-> sample.first_record_position,
                                       end |-> sample.stream_len]

\* a call that fails leaves the stream where it was
FailureReadsNothing ==
    out'[1].tag = "Err" => reader'.seeker = reader.seeker

\* at the position of the first record the call returns it, which is the first
\* record of a Reader when the rows are well formed, with no candidate looked
\* for and the stream read from that position by the reader alone
FirstRecordShortcut ==
    LET sample == reader.seeker.sample
        start == sample.first_record_position
    IN  (reader'.arg = start /\ start < sample.stream_len) =>
            /\ out'[1].tag = "Some"
            /\ out'[1].pos = start
            /\ MorallyValid(Slice(input, start, Len(input))) =>
                  Fields(out'[1].record)
                    = FirstOfReader(Slice(input, start, Len(input)), cap)
            /\ ~out'[1].unquoted.some /\ ~out'[1].quoted.some
            /\ reader'.seeker.inner.pos \in
                  {Min(start + k * cap, Len(input)) : k \in 1..Len(input)}

\* C27: find_record_after(p) fails with OutOfBounds { pos = p, start =
\* first_record_position, end = stream_len } exactly when p is before the
\* first record or not before the end of the stream, and then reads nothing;
\* for p = first_record_position it returns that position and the first
\* record without any lookahead
C27_OutOfBounds ==
    [][SeekerCalled("find_record_after") =>
            OutOfBoundsExactly /\ FailureReadsNothing /\ FirstRecordShortcut]_vars

\* a Seeker over a header and two rows was asked for the record after the
\* position of the header and failed, then nothing was read
C27_Witness ==
    /\ reader.kind = "Seeker"
    /\ reader.called = "find_record_after"
    /\ reader.seeker.sample.first_record_position = 2
    /\ reader.arg = 1
    /\ out[1].tag = "Err"
    /\ out[1].error = [kind |-> "OutOfBounds", pos |-> 1, start |-> 2, end |-> 6]
    /\ reader.seeker.inner.pos = 6

\* the offset of the first byte at or after pos that is no line break
RECURSIVE PastLineBreaks(_, _)
PastLineBreaks(bytes, pos) ==
    IF pos < Len(bytes) /\ bytes[pos + 1] \in {CR, LF}
    THEN PastLineBreaks(bytes, pos + 1)
    ELSE pos

\* the records a Reader has, each with the offset of its first byte
RECURSIVE PlacedRecords(_)
PlacedRecordsNext(self, r) ==
    IF r.ret
    THEN <<[start |-> PastLineBreaks(self.buffer.bytes, self.buffer.consumed),
            fields |-> Fields(r.record)]>> \o PlacedRecords(r.self)
    ELSE <<>>

PlacedRecords(self) == PlacedRecordsNext(self, read_byte_record(self))

\* the records of a Reader that starts at byte 0 of the stream
RecordsFromStart == PlacedRecords(BufferedReaderWithCapacity(input, cap, Delim, Quote))

\* the position and the record are those of a record of the Reader
AtRecordOfReader(pos, record) ==
    \E k \in DOMAIN RecordsFromStart :
        /\ RecordsFromStart[k].start = pos
        /\ RecordsFromStart[k].fields = Fields(record)

\* C24: when find_record_after(p) returns (q, r) for a valid p of a stream of
\* well-formed rows, q >= p, q is the offset of the first byte of a record
\* that a Reader started at byte 0 has, never an offset inside a quoted field,
\* and r is that record
C24_RecordAfter ==
    (/\ reader.kind = "Seeker"
     /\ reader.called = "find_record_after"
     /\ MorallyValid(input)
     /\ out[1].tag = "Some") =>
        /\ out[1].pos >= reader.arg
        /\ AtRecordOfReader(out[1].pos, out[1].record)

\* segments was called on the Seeker and returned ranges
Segments == reader.kind = "Seeker" /\ reader.called = "segments" /\ out[1].tag = "Ok"

\* the ranges go from the first record to the end of the stream, each one
\* starting where the one before it ends
Partition(ranges, from, to) ==
    /\ Len(ranges) >= 1
    /\ ranges[1][1] = from
    /\ ranges[Len(ranges)][2] = to
    /\ \A k \in 1..(Len(ranges) - 1) : ranges[k][2] = ranges[k + 1][1]
    /\ \A k \in DOMAIN ranges : ranges[k][1] <= ranges[k][2]

\* every range but the first starts on the first byte of a record of the
\* Reader
BoundariesAtRecords(ranges) ==
    \A k \in 2..Len(ranges) :
        \E j \in DOMAIN RecordsFromStart : RecordsFromStart[j].start = ranges[k][1]

\* C25: segments(count) returns between 1 and max(1, count) ranges that go
\* from first_record_position to stream_len without gap or overlap, each with
\* from <= to, and every internal boundary is the offset of the first byte of
\* a record, for a stream of well-formed rows
C25_Segments ==
    (Segments /\ MorallyValid(input)) =>
        /\ Len(out[1].ranges) <= (IF reader.arg < 1 THEN 1 ELSE reader.arg)
        /\ Partition(out[1].ranges, reader.seeker.sample.first_record_position,
                     reader.seeker.sample.stream_len)
        /\ BoundariesAtRecords(out[1].ranges)

\* the number of ranges for a count that only the cap reduces
CappedCount(self, count) ==
    LET chunks == self.sample.stream_len
                    \div (self.sample.max_record_size * self.lookahead_factor)
    IN  Min(count, IF chunks - 1 < 1 THEN 1 ELSE chunks - 1)

\* the lookup of every boundary of that many ranges succeeds, however the
\* cosines round
LookupsSucceed(self, count) ==
    \A rounding \in BOOLEAN :
        SegmentsLoop(self, 1, CappedCount(self, count),
                     self.sample.stream_len - self.sample.first_record_position,
                     <<self.sample.first_record_position>>, rounding).complete

\* C26: when every boundary lookup succeeds, segments(count) for count >= 1
\* returns exactly min(count, max(1, stream_len / (max_record_size *
\* lookahead_factor) - 1)) ranges, whatever the number of records sampled
C26_SegmentCount ==
    (/\ Segments
     /\ reader.arg >= 1
     /\ LookupsSucceed(reader.seeker, reader.arg)) =>
        Len(out[1].ranges) = CappedCount(reader.seeker, reader.arg)

\* the records a Reader has over the stream from the first record on
RecordsOfReader ==
    byte_records(BufferedReaderWithCapacity(
        Slice(input, reader.seeker.sample.first_record_position, Len(input)),
        cap, Delim, Quote))

\* the forward Reader yields the rows as they are written
ReaderReadsRows ==
    RecordsOfReader
      = Reference(Slice(input, reader.seeker.sample.first_record_position,
                        Len(input))).records

\* C28: last_byte_record returns the record that a forward Reader over
\* [first_record_position, stream_len) yields last, field by field and byte by
\* byte, for a stream of well-formed rows that the Reader yields as they are
\* written, whatever its quoted fields hold, its last terminator and the
\* capacity of the buffer
C28_LastRecord ==
    (/\ reader.kind = "Seeker"
     /\ reader.called = "last_byte_record"
     /\ MorallyValid(input)
     /\ ReaderReadsRows) =>
        /\ out[1].tag = "Some"
        /\ Fields(out[1].record) = RecordsOfReader[Len(RecordsOfReader)]

\* ------------------------------------------------------------------------
\* Properties of the ReverseReader
\* ------------------------------------------------------------------------
\* the bytes returned so far are the bytes of the stream from ptr to filesize,
\* the last first: each byte from ptr on was returned once and none before it
ReturnedReversed ==
    reader.returned = Reversed(Slice(input, reader.rr.ptr, reader.filesize))

\* a read returns at most as many bytes as its buffer holds, moves ptr down by
\* that many bytes and not below offset, and returns 0 bytes exactly when
\* ptr = offset
ReadMovesDown ==
    /\ Len(out'[1].bytes) <= out'[1].buff_size
    /\ reader'.rr.ptr = reader.rr.ptr - Len(out'[1].bytes)
    /\ reader'.rr.ptr >= reader.rr.offset
    /\ (out'[1].bytes = <<>>) <=> (reader.rr.ptr = reader.rr.offset)

\* C35: whatever the lengths of the buffers of the successive reads, the bytes
\* returned, in call order, are input[ptr..filesize] reversed, that is
\* input[offset..filesize] reversed once ptr = offset; ptr only decreases,
\* never below offset, and a read at ptr = offset returns 0
C35_ReverseRead ==
    [][(reader.kind = "ReverseReader" /\ reader'.kind = "ReverseReader") =>
            ReadMovesDown /\ ReturnedReversed']_vars

\* three bytes between offset 1 and filesize 4 were returned by a read of two
\* bytes and a read of one, and the next read returned 0
C35_Witness ==
    /\ reader.kind = "ReverseReader"
    /\ reader.rr.offset = 1
    /\ reader.filesize = 4
    /\ reader.rr.ptr = 1
    /\ reader.returned = <<4, 3, 2>>
    /\ out = <<[buff_size |-> 2, bytes |-> <<>>]>>

\* find_record_after was called past the first record and inside the stream
Looked ==
    /\ reader.kind = "Seeker"
    /\ reader.called = "find_record_after"
    /\ reader.arg > reader.seeker.sample.first_record_position
    /\ reader.arg < reader.seeker.sample.stream_len

\* the call returned the candidate at the offset of the stream
ReturnedAt(candidate, pos) ==
    /\ out[1].tag = "Some"
    /\ out[1].pos = pos
    /\ out[1].record = candidate.record

\* the first record a fresh reader of the Seeker has over the bytes
FirstOfFresh(bytes) ==
    to_byte_record(
        zero_copy_read_byte_record(
            BuilderFromReader(reader.seeker.builder, bytes)).record)

\* the candidate is the record that starts at the offset of the stream, for a
\* reader that reads the scratch from there
TrueOffset(candidate, pos) ==
    candidate.record
      = FirstOfFresh(Slice(Scratch(reader.seeker, reader.arg), pos - reader.arg,
                           Len(Scratch(reader.seeker, reader.arg))))

\* C36: for p > first_record_position, find_record_after(p) returns None when
\* neither hypothesis yields a candidate, the one candidate when exactly one
\* does, the unquoted one when both are at the same offset of the stream; the
\* offset of a quoted candidate is p + its offset in the quote-prefixed buffer
\* - 1, and the candidate is the record that starts at that offset
C36_Reconcile ==
    Looked =>
        LET u == out[1].unquoted
            q == out[1].quoted
            p == reader.arg
        IN  /\ (~u.some /\ ~q.some) => out[1].tag = "None"
            /\ (u.some /\ ~q.some) => ReturnedAt(u, p + u.pos)
            /\ (~u.some /\ q.some) => ReturnedAt(q, p + q.pos - 1)
            /\ (u.some /\ q.some /\ p + u.pos = p + q.pos - 1) =>
                    ReturnedAt(u, p + u.pos)
            /\ (u.some /\ q.some) => ReturnedAt(u, p + u.pos) \/ ReturnedAt(q, p + q.pos - 1)
            /\ q.some => TrueOffset(q, p + q.pos - 1)

\* the quoted candidate alone was found and returned
C36_Witness ==
    /\ Looked
    /\ ~out[1].unquoted.some
    /\ out[1].quoted.some
    /\ out[1].tag = "Some"

\* ------------------------------------------------------------------------
\* Properties of the ByteRecordBuilder
\* ------------------------------------------------------------------------
\* read_record is in the middle of a record: its last call returned InputEmpty
\* and left the builder for the next call
MidRecord == routine = "read_record" /\ core_last.result = "InputEmpty"

\* C40: in every state of the builder reached while read_record parses a
\* record, bump applied twice in a row leaves the start of the field where
\* bump applied once leaves it
C40_BumpIdempotent ==
    MidRecord => bump(bump(core_rb)).start = bump(core_rb).start

\* ------------------------------------------------------------------------
\* Properties of the TotalReader asked for counts and slices
\* ------------------------------------------------------------------------
\* the calls made so far were calls of the method, and there was one
TotalAsked(method) ==
    /\ reader.kind = "TotalReader"
    /\ out # <<>>
    /\ out[1].method = method

\* the reader the calls were made on, as it was built
FreshTotal == TotalReaderFromBytes(input, Delim, Quote, reader.has_headers)

\* every record TotalReader::read_byte_record returns until it returns false
RECURSIVE TotalReadAll(_)
TotalReadAllNext(r) ==
    IF r.ret THEN <<Fields(r.record)>> \o TotalReadAll(r.self) ELSE <<>>

TotalReadAll(self) == TotalReadAllNext(total_read_byte_record(self))

\* C31: on a fresh TotalReader, count_records returns the number of records
\* that repeated read_byte_record calls return on a fresh TotalReader over
\* the same bytes with the same has_headers setting, which is also what
\* Splitter::count_records returns over a stream of these bytes.
C31_TotalCount ==
    TotalAsked("count_records") =>
        /\ out[1].item[1] = Len(TotalReadAll(FreshTotal))
        /\ \A c \in Capacities :
              out[1].item[1] =
                  count_records(SplitterFromReader(input, c, Delim, Quote,
                                                   reader.has_headers)).count

\* the slices the split_record calls returned, without their terminators
TotalSlices ==
    [i \in 1..Len(SelectSeq(out, LAMBDA o : o.item # <<>>)) |->
        trim_trailing_crlf(out[i].item[1])]

\* the slices Splitter::split_record returns over a stream of the bytes
SplitterSlices(capacity) ==
    LET all == SplitAll(SplitterFromReader(input, capacity, Delim, Quote,
                                           reader.has_headers))
    IN  [i \in 1..Len(all) |-> all[i].slice]

\* C37: every slice TotalReader::split_record returns covers one record and
\* starts at the first byte of that record, without the blank lines and
\* stray CR bytes skipped before it: once split_record returned None, the
\* slices without their terminators are the slices Splitter::split_record
\* returns over a stream of the same bytes.
C37_TotalSlices ==
    (TotalAsked("split_record") /\ done) =>
        \A c \in Capacities : TotalSlices = SplitterSlices(c)

\* ------------------------------------------------------------------------
\* Properties of the positions of the Splitter
\* ------------------------------------------------------------------------
\* the record returned by call i lies in the stream at the position paired
\* with it
PlacedAt(i) ==
    Slice(input, out[i].pos, out[i].pos + Len(out[i].slice)) = out[i].slice

\* C39: the position Splitter::split_record_with_position pairs with a
\* record is the offset in the stream of the first byte of that record,
\* whatever precedes it (blank lines, stray CR bytes, a byte order mark) and
\* also for the first record given again when has_headers is false; the
\* positions of successive records are strictly increasing.
C39_Positions ==
    (reader.kind = "Splitter" /\ Len(out) > 0) =>
        /\ \A i \in 1..Len(out) :
              /\ out[i].pos + Len(out[i].slice) <= Len(input)
              /\ PlacedAt(i)
        /\ \A i \in 1..(Len(out) - 1) : out[i].pos < out[i + 1].pos

\* ------------------------------------------------------------------------
\* Properties of the bytes of a Writer that refused a record
\* ------------------------------------------------------------------------
\* the bytes of the record of a call, terminator included, as a Writer that
\* refuses nothing writes them
WrittenAlone(call) ==
    IF call.quoting
    THEN write_record(WriterFromWriter(Delim, Quote, TRUE), call.record).self.buffer
    ELSE write_record_no_quoting(WriterFromWriter(Delim, Quote, TRUE),
                                 call.record).self.buffer

\* the records of the calls that succeeded, one after the other
RECURSIVE CompleteRecords(_)
CompleteRecords(calls) ==
    IF calls = <<>> THEN <<>>
    ELSE (IF calls[1].ok THEN WrittenAlone(calls[1]) ELSE <<>>)
            \o CompleteRecords(Tail(calls))

\* C33: the bytes a Writer has emitted are at all times the complete
\* records of the calls that succeeded, each ending with LF: a write_record
\* or write_record_no_quoting call that fails with UnequalLengths adds no
\* byte, and the records written after it start on their own line.
C33_CompleteRecords ==
    (writer.kind = "Writer" /\ reader.kind = "none") =>
        writer.buffer = CompleteRecords(out)

\* ------------------------------------------------------------------------
\* Properties of the Writer given a record of a ZeroCopyReader
\* ------------------------------------------------------------------------
\* C38: the bytes write_zero_copy_byte_record writes for a record, read
\* back with the delimiter and the quote of the Writer, are one record with
\* the fields of to_byte_record of the record written, whether the reader
\* the record comes from had the delimiter and the quote of the Writer or
\* others.
C38_ZeroCopyRoundTrip ==
    (reader.kind = "ZeroCopyByteRecord" /\ writer.kind = "Writer" /\ out # <<>>) =>
        \A c \in Capacities :
            byte_records(BufferedReaderWithCapacity(writer.buffer, c, Delim, Quote))
                = <<Fields(to_byte_record(reader.record))>>

\* ------------------------------------------------------------------------
\* Properties of a ZeroCopyReader called again after a failure
\* ------------------------------------------------------------------------
\* C32: a read_byte_record call of a ZeroCopyReader that fails with
\* UnequalLengths has moved the reader past the offending record: the call
\* after it is about what follows, so no two failures report the record at
\* the same byte offset, and the calls end with None.
C32_PastTheOffender ==
    reader.kind = "ZeroCopyReader" =>
        \A i, j \in 1..Len(out) :
            (i < j /\ out[i].tag = "Err" /\ out[j].tag = "Err") =>
                out[i].error.byte < out[j].error.byte

\* ------------------------------------------------------------------------
\* Properties of progress
\* ------------------------------------------------------------------------
\* a call of the routine on a chunk that is not empty consumed at least one
\* byte and no more than the chunk, and returned one of the results
CallProgress ==
    core_last.input # <<>> =>
        /\ 1 <= core_last.pos
        /\ core_last.pos <= Len(core_last.input)
        /\ core_last.result \in {"Cr", "Lf", "InputEmpty", "Record"}

\* the bytes the read_record calls of the first read consumed: each call
\* adds what it consumed to pos, which starts behind the byte order mark
FirstReadConsumed ==
    total_read_byte_record_impl([FreshTotal EXCEPT !.pos = trim_bom(input)]).self.pos
        - trim_bom(input)

\* the bytes the read_record calls made after the first read consumed
LaterConsumed == reader.pos - TotalOnFirstRead(FreshTotal).pos

\* C34: the calls of the CoreReader never fail and consume between 1 byte
\* and the whole of a chunk that is not empty, and what successive calls
\* consume adds up to the length of the input, every byte consumed once, so
\* that a reader driven over a finite byte string reaches End: for the
\* TotalReader, once read_byte_record returned false, the read_record calls
\* made have consumed, together, the bytes behind the byte order mark once.
C34_Progress ==
    (TotalAsked("read_byte_record") /\ done) =>
        FirstReadConsumed + LaterConsumed = Len(input) - trim_bom(input)

============================================================================
